---------------------------- MODULE Spec2Model ----------------------------
(***************************************************************************)
(* Multi-species cellular automaton on square / hexagon / triangle         *)
(* lattices (square_grid.py, hexagon_grid_numpy.py,                        *)
(* triangle_grid_numpy.py), the game object that drives it (game.py,       *)
(* settings_panel.py), the genome encoding of the rule discovery loop      *)
(* (rule_discovery.py), the library calls grid_factory.create_grid and     *)
(* neighbor_utils.get_max_neighbors, and the headless runner               *)
(* (experiments/runner.py).                                                *)
(***************************************************************************)
EXTENDS Integers, Sequences, FiniteSets, TLC

(***************************************************************************)
(* Bounds of the model.                                                    *)
(***************************************************************************)
GridW == 3
GridH == 2
MaxGen == 2
MaxClicks == 1
MaxActive == 1
MaxSeed == 1
MaxN == 2

(* generations explored by the long-run specification; above 2^7 *)
LongRun == 130
MaxTicks == 1

(***************************************************************************)
(* Program constants.                                                      *)
(***************************************************************************)
LifespanBits == 8
StaticThreshold == 10
NumLifeforms == 10
MaxRuleCount == 4

Shapes == {"square", "hexagon", "triangle"}
TriangleModes == {"edge", "edge+vertex"}

Cells == {<<r, c>> : r \in 0 .. GridH - 1, c \in 0 .. GridW - 1}

(* np.int8 arithmetic of grid_lifespans: two's complement wrap-around *)
Int8(x) == ((x + 2 ^ (LifespanBits - 1)) % (2 ^ LifespanBits)) - 2 ^ (LifespanBits - 1)

Min(a, b) == IF a < b THEN a ELSE b
Max(a, b) == IF a > b THEN a ELSE b

(***************************************************************************)
(* neighbor_utils.get_max_neighbors                                        *)
(***************************************************************************)
(* str.lower() on the names the model passes as a shape or a mode *)
lower(s) ==
    IF s = "Square" THEN "square"
    ELSE IF s = "HEXAGON" THEN "hexagon"
    ELSE IF s = "Triangle" THEN "triangle"
    ELSE IF s = "Edge" THEN "edge"
    ELSE s

(* how a call ends: the exception raised ("none" if none) and the value    *)
(* returned, << >> if the call raised                                      *)
Returns(value) == [raised |-> "none", returned |-> << value >>]
Raises(exception) == [raised |-> exception, returned |-> << >>]

(* a variant that falls back to the square degree for an unknown shape *)
get_max_neighbors_default(grid_shape, mode) ==
    LET shape == lower(grid_shape)
    IN  IF shape = "hexagon" THEN Returns(6)
        ELSE IF shape = "triangle"
        THEN (IF mode = "edge+vertex" THEN Returns(12) ELSE Returns(3))
        ELSE Returns(8)

get_max_neighbors(grid_shape, mode) ==
    LET shape == lower(grid_shape)
    IN  IF shape = "square" THEN Returns(8)
        ELSE IF shape = "hexagon" THEN Returns(6)
        ELSE IF shape = "triangle"
        THEN (IF mode = "edge+vertex" THEN Returns(12) ELSE Returns(3))
        ELSE Raises("ValueError")

(***************************************************************************)
(* Topology.                                                               *)
(***************************************************************************)
(* the 3x3 kernel of SquareGrid.update, centre weight 0 *)
kernel == {o \in {<<dr, dc>> : dr \in -1 .. 1, dc \in -1 .. 1} : o /= <<0, 0>>}

(* odd-q offsets of HexagonGridNumpy._create_neighbor_map *)
hex_offsets(c) ==
    IF c % 2 = 1
    THEN {<<-1, 0>>, <<1, 0>>, <<0, -1>>, <<0, 1>>, <<1, -1>>, <<1, 1>>}
    ELSE {<<-1, 0>>, <<1, 0>>, <<0, -1>>, <<0, 1>>, <<-1, -1>>, <<-1, 1>>}

(* TriangleGridNumpy._triangle_corners with size = 2: x0 = c, and y in     *)
(* units of sqrt(3)/2, so y0 = 2r and the corners are at 2r-1 and 2r+1     *)
triangle_corners(r, c, upward) ==
    IF upward
    THEN {<<c, 2 * r - 1>>, <<c - 1, 2 * r + 1>>, <<c + 1, 2 * r + 1>>}
    ELSE {<<c, 2 * r + 1>>, <<c - 1, 2 * r - 1>>, <<c + 1, 2 * r - 1>>}

(* a variant that searches only the positions at distance 1 *)
add_offsets_near(origin_corners, base_r, base_c, mode) ==
    {o \in {<<dr, dc>> : dr \in -1 .. 1, dc \in -1 .. 1} :
        /\ o /= <<0, 0>>
        /\ LET nr == base_r + o[1]
               nc == base_c + o[2]
               neighbor_upward == (nr + nc) % 2 = 0
               corners == triangle_corners(nr, nc, neighbor_upward)
               shared_vertices == origin_corners \cap corners
           IN  IF mode = "edge"
               THEN Cardinality(shared_vertices) >= 2
               ELSE Cardinality(shared_vertices) >= 1}

(* add_offsets of TriangleGridNumpy._build_neighbor_offsets *)
add_offsets(origin_corners, base_r, base_c, mode) ==
    {o \in {<<dr, dc>> : dr \in -3 .. 3, dc \in -3 .. 3} :
        /\ o /= <<0, 0>>
        /\ LET nr == base_r + o[1]
               nc == base_c + o[2]
               neighbor_upward == (nr + nc) % 2 = 0
               corners == triangle_corners(nr, nc, neighbor_upward)
               shared_vertices == origin_corners \cap corners
           IN  IF mode = "edge"
               THEN Cardinality(shared_vertices) >= 2
               ELSE Cardinality(shared_vertices) >= 1}

(* self.offsets_up and self.offsets_down for each neighborhood mode *)
offsets_up_edge == add_offsets(triangle_corners(0, 0, TRUE), 0, 0, "edge")
offsets_down_edge == add_offsets(triangle_corners(0, 1, FALSE), 0, 1, "edge")
offsets_up_vertex == add_offsets(triangle_corners(0, 0, TRUE), 0, 0, "edge+vertex")
offsets_down_vertex == add_offsets(triangle_corners(0, 1, FALSE), 0, 1, "edge+vertex")

offsets_up(mode) == IF mode = "edge" THEN offsets_up_edge ELSE offsets_up_vertex
offsets_down(mode) == IF mode = "edge" THEN offsets_down_edge ELSE offsets_down_vertex

(* the offsets a grid of the given kind uses at cell (r, c) *)
cell_offsets(topo, r, c) ==
    IF topo.shape = "square" THEN kernel
    ELSE IF topo.shape = "hexagon" THEN hex_offsets(c)
    ELSE IF (c + r) % 2 = 0 THEN offsets_up(topo.mode) ELSE offsets_down(topo.mode)

(* SquareGrid counts with convolve2d(boundary='wrap') whatever the wrap    *)
(* flag; the numpy hexagon and triangle grids honour self.wrap             *)
wraps(topo) == topo.shape = "square" \/ topo.wrap

(* the offsets of cell (r, c) that lead to a cell of the grid *)
neighbor_offsets(topo, cell) ==
    {o \in cell_offsets(topo, cell[1], cell[2]) :
        \/ wraps(topo)
        \/ /\ cell[1] + o[1] \in 0 .. GridH - 1
           /\ cell[2] + o[2] \in 0 .. GridW - 1}

neighbor_cell(cell, o) == <<(cell[1] + o[1]) % GridH, (cell[2] + o[2]) % GridW>>

(* neighbor_counts[lifeform.id] at one cell: neighbours are counted once   *)
(* per offset, so a wrapped cell reached by two offsets counts twice       *)
neighbor_counts(topo, g, id, cell) ==
    Cardinality({o \in neighbor_offsets(topo, cell) : g[neighbor_cell(cell, o)] = id})

(***************************************************************************)
(* One generation: SquareGrid.update, HexagonGridNumpy.update and          *)
(* TriangleGridNumpy.update.  lfs is grid.lifeforms, a sequence of         *)
(* [id, birth_rules, survival_rules]; g is grid.grid and l is              *)
(* grid.grid_lifespans, both before the step.                              *)
(***************************************************************************)
lifeform_ids(lfs) == {lfs[i].id : i \in 1 .. Len(lfs)}

(* a variant for which an empty birth_rules list admits every count *)
potential_parents_unrestricted(topo, lfs, g, cell) ==
    {lfs[i].id : i \in {j \in 1 .. Len(lfs) :
        \/ lfs[j].birth_rules = {}
        \/ neighbor_counts(topo, g, lfs[j].id, cell) \in lfs[j].birth_rules}}

(* a tie-break by lowest id: of the candidates at a birth location, only   *)
(* the one listed first                                                    *)
lowest_id_parent(topo, lfs, g, cell) ==
    LET idx == {j \in 1 .. Len(lfs) :
                   neighbor_counts(topo, g, lfs[j].id, cell) \in lfs[j].birth_rules}
    IN  IF idx = {} THEN {} ELSE {lfs[CHOOSE j \in idx : \A k \in idx : j <= k].id}

(* potential_parents at a birth location *)
potential_parents(topo, lfs, g, cell) ==
    {lfs[i].id : i \in {j \in 1 .. Len(lfs) :
        neighbor_counts(topo, g, lfs[j].id, cell) \in lfs[j].birth_rules}}

(* np.argwhere(possible_births > 0): dead cells some lifeform's birth_mask covers *)
birth_locations(topo, lfs, g) ==
    {cell \in Cells : ~(g[cell] > 0) /\ potential_parents(topo, lfs, g, cell) /= {}}

(* the outcomes of random.choice(potential_parents) over all birth locations *)
parent_choices(topo, lfs, g) ==
    LET locations == birth_locations(topo, lfs, g)
        parents == [cell \in locations |-> potential_parents(topo, lfs, g, cell)]
    IN  {ch \in [locations -> lifeform_ids(lfs)] :
            \A cell \in locations : ch[cell] \in parents[cell]}

survival_mask(topo, lfs, g, i, cell) ==
    /\ neighbor_counts(topo, g, lfs[i].id, cell) \in lfs[i].survival_rules
    /\ g[cell] = lfs[i].id

death_mask(topo, lfs, g, i, cell) ==
    /\ neighbor_counts(topo, g, lfs[i].id, cell) \notin lfs[i].survival_rules
    /\ g[cell] = lfs[i].id

(* new_lifespans[survival_mask] += 1 on the int8 array *)
survive_lifespan(v) == Int8(v + 1)

(* the survival and death loop over self.lifeforms, from lifeform i on, at *)
(* one cell: cur is <<new_grid[cell], new_lifespans[cell]>> so far         *)
RECURSIVE survival_and_death(_, _, _, _, _, _)
survival_and_death(topo, lfs, g, i, cell, cur) ==
    IF i > Len(lfs) THEN cur
    ELSE survival_and_death(topo, lfs, g, i + 1, cell,
            IF death_mask(topo, lfs, g, i, cell) THEN <<0, 0>>
            ELSE IF survival_mask(topo, lfs, g, i, cell)
                 THEN <<cur[1], survive_lifespan(cur[2])>>
                 ELSE cur)

(* <<new_grid[cell], new_lifespans[cell]>> after the birth pass *)
birth_pass(g, l, chosen, cell) ==
    IF cell \in DOMAIN chosen THEN <<chosen[cell], 1>> ELSE <<g[cell], l[cell]>>

(* a variant that applies survival and death to the grid in which this    *)
(* step's births are already entered                                       *)
next_cell_in_place(topo, lfs, g, l, chosen, cell) ==
    survival_and_death(topo, lfs,
        [c \in Cells |-> IF c \in DOMAIN chosen THEN chosen[c] ELSE g[c]],
        1, cell,
        IF cell \in DOMAIN chosen THEN <<chosen[cell], 1>> ELSE <<g[cell], l[cell]>>)

(* <<new_grid[cell], new_lifespans[cell]>> at the end of update *)
next_cell(topo, lfs, g, l, chosen, cell) ==
    survival_and_death(topo, lfs, g, 1, cell, birth_pass(g, l, chosen, cell))

next_grid(topo, lfs, g, l, chosen) ==
    [cell \in Cells |-> next_cell(topo, lfs, g, l, chosen, cell)[1]]

next_lifespans(topo, lfs, g, l, chosen) ==
    [cell \in Cells |-> next_cell(topo, lfs, g, l, chosen, cell)[2]]

RECURSIVE SumTo(_, _)
SumTo(f, n) == IF n = 0 THEN 0 ELSE f[n] + SumTo(f, n - 1)

SetMax(S) == CHOOSE x \in S : \A y \in S : y <= x

(* a variant that takes 0 for an empty survival_rules list *)
max_survive_zero(lf) == IF lf.survival_rules /= {} THEN SetMax(lf.survival_rules) ELSE 0

(* max(lifeform.survival_rules), or -1 for an empty list *)
max_survive(lf) == IF lf.survival_rules /= {} THEN SetMax(lf.survival_rules) ELSE -1

(* stacked_counts[:, cell] *)
stacked_counts(topo, lfs, g, cell) ==
    [i \in 1 .. Len(lfs) |-> neighbor_counts(topo, g, lfs[i].id, cell)]

total_neighbors_all(topo, lfs, g, cell) ==
    SumTo(stacked_counts(topo, lfs, g, cell), Len(lfs))

death_overcrowd(topo, lfs, g, i, cell) ==
    /\ neighbor_counts(topo, g, lfs[i].id, cell) > max_survive(lfs[i])
    /\ death_mask(topo, lfs, g, i, cell)

(* np.argmax: the first index holding the maximum *)
argmax(f) ==
    CHOOSE k \in DOMAIN f :
        /\ \A j \in DOMAIN f : f[j] <= f[k]
        /\ \A j \in DOMAIN f : j < k => f[j] < f[k]

(* a variant that neither masks the dying lifeform's own count nor        *)
(* compares the killer's id with it                                        *)
killer_of_any(topo, lfs, g, i, cell) ==
    IF ~death_overcrowd(topo, lfs, g, i, cell) THEN 0
    ELSE LET counts_at == stacked_counts(topo, lfs, g, cell)
             killer_idx == argmax(counts_at)
             killer_val == counts_at[killer_idx]
             total_n == total_neighbors_all(topo, lfs, g, cell)
             majority == 2 * killer_val > total_n
         IN  IF majority THEN killer_idx ELSE 0

(* the index of the lifeform credited with the death of lifeform i's cell, *)
(* or 0 when no kill is attributed                                         *)
killer_of(topo, lfs, g, i, cell) ==
    IF ~death_overcrowd(topo, lfs, g, i, cell) THEN 0
    ELSE LET counts_at == [stacked_counts(topo, lfs, g, cell) EXCEPT ![i] = -1]
             killer_idx == argmax(counts_at)
             killer_val == counts_at[killer_idx]
             total_n == total_neighbors_all(topo, lfs, g, cell)
             majority == 2 * killer_val > total_n
         IN  IF majority /\ lfs[killer_idx].id /= lfs[i].id THEN killer_idx ELSE 0

lifeform_kill_counts(topo, lfs, g) ==
    LET killers == {<<i, cell, killer_of(topo, lfs, g, i, cell)>> :
                        i \in 1 .. Len(lfs), cell \in Cells}
    IN  [id \in lifeform_ids(lfs) |->
            Cardinality({k \in killers : k[3] /= 0 /\ lfs[k[3]].id = id})]

(* a death count that looks at the first lifeform only *)
deaths_of_first(topo, lfs, g) ==
    Cardinality({ic \in {<<i, cell>> : i \in 1 .. Min(Len(lfs), 1), cell \in Cells} :
                    death_mask(topo, lfs, g, ic[1], ic[2])})

deaths_of(topo, lfs, g) ==
    Cardinality({ic \in {<<i, cell>> : i \in 1 .. Len(lfs), cell \in Cells} :
                    death_mask(topo, lfs, g, ic[1], ic[2])})

(* the six values every update returns *)
base_result(topo, lfs, g, ng, nl) ==
    << Cardinality(birth_locations(topo, lfs, g)),
       deaths_of(topo, lfs, g),
       Cardinality({cell \in Cells : nl[cell] > StaticThreshold}),
       [id \in lifeform_ids(lfs) |-> Cardinality({cell \in Cells : ng[cell] = id})],
       [id \in lifeform_ids(lfs) |->
           Cardinality({cell \in Cells : ng[cell] = id /\ nl[cell] > StaticThreshold})],
       [id \in lifeform_ids(lfs) |-> <<>>] >>

(* the tuple update returns: SquareGrid.update returns six values, the     *)
(* numpy hexagon and triangle grids add lifeform_kill_counts, changed_cells *)
update_result(topo, lfs, g, ng, nl) ==
    IF topo.shape = "square"
    THEN base_result(topo, lfs, g, ng, nl)
    ELSE base_result(topo, lfs, g, ng, nl) \o
         << lifeform_kill_counts(topo, lfs, g),
            Cardinality({cell \in Cells : g[cell] /= ng[cell]}) >>

(***************************************************************************)
(* State.                                                                  *)
(*   game      the GameOfLife object's settings and counters               *)
(*   panel     the SettingsPanel's selections                              *)
(*   topo      the lattice of the grid object: shape, neighborhood mode,   *)
(*             and the wrap flag grid_factory.create_grid was called with  *)
(*   lifeforms grid.lifeforms                                              *)
(*   grid, grid_lifespans, generation   the grid object's arrays/counter   *)
(*   result    the tuple the last update returned                          *)
(*   pre_grid, pre_lifespans, last_op   the arrays before the last         *)
(*             operation on the grid, and which operation it was           *)
(*   clicks    number of handle_click calls so far                         *)
(*   genome    the rule discovery's genome under conversion                *)
(*   call      the last call of grid_factory.create_grid or                *)
(*             get_max_neighbors: its arguments and how it ended           *)
(*   run       the locals of experiments.runner.run_timeseries or          *)
(*             run_damage_spreading                                        *)
(*   discovery the locals of rule_discovery.discover_rules                 *)
(*   store     the file discovered_rules_<shape>.json, file_lock, and the  *)
(*             position of every save_rule call in progress                *)
(***************************************************************************)
VARIABLES game, panel, topo, lifeforms, grid, grid_lifespans, generation,
          result, pre_grid, pre_lifespans, last_op, clicks, genome, call, run,
          discovery, store

vars == << game, panel, topo, lifeforms, grid, grid_lifespans, generation,
           result, pre_grid, pre_lifespans, last_op, clicks, genome, call, run,
           discovery, store >>

gridVars == << topo, lifeforms, grid, grid_lifespans, generation,
               result, pre_grid, pre_lifespans, last_op, clicks >>

Lifeform(lifeform_id, birth_rules, survival_rules) ==
    [id |-> lifeform_id, birth_rules |-> birth_rules, survival_rules |-> survival_rules]

(***************************************************************************)
(* Seeding: create_grid of the three grid classes.  pct is                 *)
(* initial_alive_percentage in percent.                                    *)
(***************************************************************************)
(* a variant that rounds up *)
num_alive_cells_ceil(pct) == (GridW * GridH * pct + 99) \div 100

(* int(grid_width * grid_height * initial_alive_percentage) *)
num_alive_cells(pct) == (GridW * GridH * pct) \div 100

(* np.random.choice(width * height, num_alive_cells, replace=False) *)
alive_choices(k) == {A \in SUBSET Cells : Cardinality(A) = k}

(* the [grid, lifespans] pairs create_grid can leave *)
seedings(lfs, pct) ==
    IF num_alive_cells(pct) > 0
    THEN LET owners == IF lfs /= <<>> THEN lifeform_ids(lfs) ELSE {1}
         IN  UNION {{[grid |-> [cell \in Cells |-> IF cell \in A THEN ids[cell] ELSE 0],
                      lifespans |-> [cell \in Cells |-> IF cell \in A THEN 1 ELSE 0]] :
                        ids \in [A -> owners]} :
                    A \in alive_choices(num_alive_cells(pct))}
    ELSE {[grid |-> [cell \in Cells |-> 0], lifespans |-> [cell \in Cells |-> 0]]}

(***************************************************************************)
(* Operations on a grid object.                                            *)
(***************************************************************************)
(* the arrays grid.update() leaves, at most maxgen generations: one       *)
(* outcome for each way random.choice picks the parents                    *)
StepArrays(maxgen) ==
    /\ generation < maxgen
    /\ \E chosen \in parent_choices(topo, lifeforms, grid) :
          /\ grid' = next_grid(topo, lifeforms, grid, grid_lifespans, chosen)
          /\ grid_lifespans' = next_lifespans(topo, lifeforms, grid, grid_lifespans, chosen)

(* what grid.update() does to the grid object, and the tuple it returns *)
GridStep(maxgen) ==
    /\ StepArrays(maxgen)
    /\ result' = update_result(topo, lifeforms, grid, grid', grid_lifespans')
    /\ generation' = generation + 1
    /\ pre_grid' = grid
    /\ pre_lifespans' = grid_lifespans
    /\ last_op' = [op |-> "update"]
    /\ UNCHANGED << topo, lifeforms, clicks >>

(* grid.update() called on the grid object directly (experiments/runner.py) *)
Update(maxgen) ==
    /\ GridStep(maxgen)
    /\ UNCHANGED << game, panel, genome, call, run, discovery, store >>

(* a variant that gives the cell an id after the last lifeform's *)
click_owners_next(lfs) == {Len(lfs) + 1}

(* the species a click gives a dead cell *)
click_owners(lfs) == IF lfs /= <<>> THEN lifeform_ids(lfs) ELSE {1}

(* grid.handle_click(pos) with pos inside some cell *)
HandleClick ==
    /\ clicks < MaxClicks
    /\ \E cell \in Cells :
          IF grid[cell] > 0
          THEN /\ grid' = [grid EXCEPT ![cell] = 0]
               /\ grid_lifespans' = [grid_lifespans EXCEPT ![cell] = 0]
          ELSE \E lifeform_id \in click_owners(lifeforms) :
               /\ grid' = [grid EXCEPT ![cell] = lifeform_id]
               /\ grid_lifespans' = [grid_lifespans EXCEPT ![cell] = 1]
    /\ clicks' = clicks + 1
    /\ pre_grid' = grid
    /\ pre_lifespans' = grid_lifespans
    /\ last_op' = [op |-> "click"]
    /\ UNCHANGED << game, panel, topo, lifeforms, generation, result, genome, call, run, discovery, store >>

(***************************************************************************)
(* Grid specification: grids built by grid_factory.create_grid with a      *)
(* list of lifeforms, then stepped and clicked.                            *)
(***************************************************************************)
NoGame == [status |-> "none"]
NoPanel == [status |-> "none"]
NoGenome == [op |-> "none"]
NoCall == [op |-> "none"]
NoRun == [status |-> "none"]
NoDiscovery == [status |-> "none"]
NoStore == [status |-> "none"]

Topologies ==
    {[shape |-> "square", mode |-> "none", wrap |-> w] : w \in BOOLEAN}
    \cup {[shape |-> "hexagon", mode |-> "none", wrap |-> w] : w \in BOOLEAN}
    \cup {[shape |-> "triangle", mode |-> m, wrap |-> w] : m \in TriangleModes, w \in BOOLEAN}

(* lifeform lists the grids are built with *)
RuleMenu ==
    { << Lifeform(1, {2}, {1, 2}), Lifeform(2, {1, 2}, {0, 1}) >>,
      << Lifeform(1, {3}, {2, 3}) >>,
      << >> }

(* initial_alive_percentage, in percent *)
SeedPcts == {25, 50}

InitCells(pct) ==
    /\ \E s \in seedings(lifeforms, pct) :
          /\ grid = s.grid
          /\ grid_lifespans = s.lifespans
    /\ generation = 0
    /\ result = << >>
    /\ pre_grid = grid
    /\ pre_lifespans = grid_lifespans
    /\ last_op = [op |-> "create", initial_alive_percentage |-> pct]
    /\ clicks = 0

Init ==
    /\ game = NoGame
    /\ panel = NoPanel
    /\ genome = NoGenome
    /\ call = NoCall
    /\ run = NoRun
    /\ discovery = NoDiscovery
    /\ store = NoStore
    /\ topo \in Topologies
    /\ lifeforms \in RuleMenu
    /\ \E pct \in SeedPcts : InitCells(pct)

Next ==
    \/ Update(MaxGen)
    \/ HandleClick

Spec == Init /\ [][Next]_vars

(* lifeform lists with an empty birth_rules or survival_rules list *)
EmptyRuleMenu ==
    { << Lifeform(1, {}, {1, 2}), Lifeform(2, {}, {0, 1}) >>,
      << Lifeform(1, {}, {}) >>,
      << Lifeform(1, {2}, {}), Lifeform(2, {1, 2}, {0, 1}) >>,
      << Lifeform(1, {1}, {}), Lifeform(2, {1, 2}, {}) >> }

InitEmpty ==
    /\ game = NoGame
    /\ panel = NoPanel
    /\ genome = NoGenome
    /\ call = NoCall
    /\ run = NoRun
    /\ discovery = NoDiscovery
    /\ store = NoStore
    /\ topo \in Topologies
    /\ lifeforms \in EmptyRuleMenu
    /\ \E pct \in SeedPcts : InitCells(pct)

NextEmpty == Update(MaxGen)

SpecEmpty == InitEmpty /\ [][NextEmpty]_vars

(***************************************************************************)
(* Rule strings.  A comma-separated rule string is modelled by the         *)
(* sequence of its pieces, str.split(',').                                 *)
(***************************************************************************)
(* r.strip() *)
strip(r) == IF r = " 6" THEN "6" ELSE IF r = " " THEN "" ELSE r

(* the tokens int() accepts, among those the model draws *)
int_tokens ==
    {"-1", "0", "1", "2", "3", "4", "5", "6", "7", "8", "9", "10", "11", "12", "13"}

(* int(token) for an accepted token; the others raise ValueError *)
int(token) ==
    CASE token = "-1" -> -1
      [] token = "0" -> 0
      [] token = "1" -> 1
      [] token = "2" -> 2
      [] token = "3" -> 3
      [] token = "4" -> 4
      [] token = "5" -> 5
      [] token = "6" -> 6
      [] token = "7" -> 7
      [] token = "8" -> 8
      [] token = "9" -> 9
      [] token = "10" -> 10
      [] token = "11" -> 11
      [] token = "12" -> 12
      [] token = "13" -> 13

(* str(v) for the values rules hold *)
str(v) ==
    CASE v = -1 -> "-1"
      [] v = 0 -> "0"
      [] v = 1 -> "1"
      [] v = 2 -> "2"
      [] v = 3 -> "3"
      [] v = 4 -> "4"
      [] v = 5 -> "5"
      [] v = 6 -> "6"
      [] v = 7 -> "7"
      [] v = 8 -> "8"
      [] v = 9 -> "9"
      [] v = 10 -> "10"
      [] v = 11 -> "11"
      [] v = 12 -> "12"
      [] v = 13 -> "13"

(* [int(r.strip()) for r in rules_str.split(',') if r.strip()], as the set *)
(* of its values; error when a piece is no integer (ValueError)            *)
parse_rules(rules_str) ==
    LET pieces == {k \in 1 .. Len(rules_str) : strip(rules_str[k]) /= ""}
    IN  IF \E k \in pieces : strip(rules_str[k]) \notin int_tokens
        THEN [error |-> TRUE, rules |-> {}]
        ELSE [error |-> FALSE, rules |-> {int(strip(rules_str[k])) : k \in pieces}]

SetMin(S) == CHOOSE x \in S : \A y \in S : x <= y

(* sorted(rules) *)
RECURSIVE sorted(_)
sorted(S) == IF S = {} THEN << >> ELSE <<SetMin(S)>> \o sorted(S \ {SetMin(S)})

(* ','.join(map(str, rules)) *)
join_rules(rules) == [k \in 1 .. Cardinality(rules) |-> str(sorted(rules)[k])]

(***************************************************************************)
(* GameOfLife.randomise_lifeforms.  The random module is modelled by a     *)
(* stream of numbers fixed by a seed; draw j of the stream is rng(seed, j) *)
(***************************************************************************)
rng(seed, j) == 5 * seed + 7 * j + (j \div 4)

(* random.randint(a, b) *)
randint(a, b, u) == a + (u % (b - a + 1))

(* random.sample(range(0, n), k): k distinct values of 0 .. n-1 *)
sample(n, k, u) == {(u + t) % n : t \in 0 .. k - 1}

(* a population one value too long: range(0, max_n + 2) *)
rule_population_too_long(max_n) == max_n + 2

(* the population the rule values are sampled from: range(0, max_n + 1) *)
rule_population(max_n) == max_n + 1

random_rules(max_n, seed, j) ==
    sample(rule_population(max_n),
           randint(1, Min(MaxRuleCount, max_n + 1), rng(seed, j)),
           rng(seed, j + 1))

randomise_lifeforms(shape, triangle_mode, seed) ==
    LET max_n == get_max_neighbors(shape, triangle_mode).returned[1]
    IN  [i \in 1 .. NumLifeforms |->
            Lifeform(i, random_rules(max_n, seed, 4 * i - 3),
                        random_rules(max_n, seed, 4 * i - 1))]

(***************************************************************************)
(* The GameOfLife object and its SettingsPanel.  Of the panel the model    *)
(* keeps the two selections; the rule texts it shows are written by        *)
(* update_lifeform_rules and read by the drawing code only.                *)
(***************************************************************************)
(* the grid class grid_factory.create_grid builds: SquareGrid takes no     *)
(* mode and is not passed the wrap flag of the call (it is kept in topo    *)
(* as an argument of the call only), HexagonGridNumpy takes no mode        *)
factory_topo(shape, triangle_mode, wrap) ==
    IF shape = "square" THEN [shape |-> "square", mode |-> "none", wrap |-> wrap]
    ELSE IF shape = "hexagon" THEN [shape |-> "hexagon", mode |-> "none", wrap |-> wrap]
    ELSE [shape |-> "triangle", mode |-> triangle_mode, wrap |-> wrap]

(* GameOfLife.create_grid with the settings gm: a new grid object, and the *)
(* game's counters reset                                                   *)
CreateGrid(gm, op) ==
    /\ topo' = factory_topo(gm.shape, gm.triangle_mode, TRUE)
    /\ lifeforms' = SubSeq(gm.lifeforms, 1, gm.number_of_lifeforms)
    /\ \E s \in seedings(SubSeq(gm.lifeforms, 1, gm.number_of_lifeforms),
                         gm.initial_alive_percentage) :
          /\ grid' = s.grid
          /\ grid_lifespans' = s.lifespans
          /\ pre_grid' = s.grid
          /\ pre_lifespans' = s.lifespans
    /\ generation' = 0
    /\ result' = << >>
    /\ last_op' = op
    /\ game' = [gm EXCEPT !.generation = 0, !.total_births = 0, !.total_deaths = 0]
    /\ UNCHANGED << clicks, genome, call, run, discovery, store >>

(* the option after the selected one: (index + 1) % len(options) *)
next_option(options, selected) ==
    LET idx == CHOOSE k \in 1 .. Len(options) : options[k] = selected
    IN  options[(idx % Len(options)) + 1]

shape_options == << "triangle", "square", "hexagon" >>
mode_options == << "edge", "edge+vertex" >>

(* a click on the 'Grid Shape' selection: the handler calls apply_settings *)
(* and create_grid, and the grid of the second call is the one that stays  *)
SelectGridShape ==
    /\ game.status = "ok"
    /\ LET sel == [panel.selections EXCEPT
                      !.shape = next_option(shape_options, panel.selections.shape)]
       IN  /\ panel' = [panel EXCEPT !.selections = sel]
           /\ CreateGrid([game EXCEPT !.shape = sel.shape, !.triangle_mode = sel.mode],
                      [op |-> "select"])

(* a click on the 'Triangle Neighborhood' selection *)
SelectTriangleNeighborhood ==
    /\ game.status = "ok"
    /\ LET sel == [panel.selections EXCEPT
                      !.mode = next_option(mode_options, panel.selections.mode)]
       IN  /\ panel' = [panel EXCEPT !.selections = sel]
           /\ CreateGrid([game EXCEPT !.shape = sel.shape, !.triangle_mode = sel.mode],
                      [op |-> "select"])

(* SettingsPanel.apply_settings (the Apply button), ActionBar.reset *)
ApplySettings ==
    /\ game.status = "ok"
    /\ CreateGrid(game, [op |-> "reset"])
    /\ UNCHANGED panel

(* SettingsPanel.randomise_lifeforms (the Randomise Lifeforms button) *)
RandomiseLifeforms ==
    /\ game.status = "ok"
    /\ \E seed \in 0 .. MaxSeed :
          LET lfs == randomise_lifeforms(game.shape, game.triangle_mode, seed)
          IN  CreateGrid([game EXCEPT !.lifeforms = lfs], [op |-> "randomise"])
    /\ UNCHANGED panel

(* SettingsPanel.update_number_of_lifeforms(value); with the value the     *)
(* game has this is ActionBar.new_random                                   *)
UpdateNumberOfLifeforms ==
    /\ game.status = "ok"
    /\ \E value \in 1 .. MaxActive, seed \in 0 .. MaxSeed :
          CreateGrid([game EXCEPT
              !.number_of_lifeforms = value,
              !.lifeforms = randomise_lifeforms(game.shape, game.triangle_mode, seed)],
              [op |-> "randomise"])
    /\ UNCHANGED panel

(* GameOfLife.apply_ruleset_to_lifeform with the settings gm *)
apply_ruleset_to_lifeform(gm, lifeform_index, birth_rules_str, survival_rules_str) ==
    IF ~(0 <= lifeform_index /\ lifeform_index < Len(gm.lifeforms))
    THEN /\ game' = gm
         /\ UNCHANGED << panel, gridVars, genome, call, run, discovery, store >>
    ELSE IF parse_rules(birth_rules_str).error \/ parse_rules(survival_rules_str).error
    THEN /\ game' = gm
         /\ UNCHANGED << panel, gridVars, genome, call, run, discovery, store >>
    ELSE LET lfs == [gm.lifeforms EXCEPT
                        ![lifeform_index + 1].birth_rules = parse_rules(birth_rules_str).rules,
                        ![lifeform_index + 1].survival_rules = parse_rules(survival_rules_str).rules]
         IN  /\ UNCHANGED panel
             /\ CreateGrid([gm EXCEPT !.lifeforms = lfs],
                           [op |-> "apply", lifeform_index |-> lifeform_index,
                            birth_rules_str |-> birth_rules_str,
                            survival_rules_str |-> survival_rules_str])

(* rule strings handed to apply_ruleset_to_lifeform, as the pieces between *)
(* their commas: birth string, then survival string                        *)
RuleStrings ==
    { << << "2", "6", "8" >>, << "2", " 6", "", "3" >> >>,
      << << "-1", "3" >>, << "13" >> >>,
      << << "3", "x" >>, << "2" >> >> }

(* a caller of apply_ruleset_to_lifeform *)
ApplyRuleset ==
    /\ game.status = "ok"
    /\ \E lifeform_index \in {0, NumLifeforms}, rs \in RuleStrings :
          apply_ruleset_to_lifeform(game, lifeform_index, rs[1], rs[2])

(* the rows of the saved-rules table: a shape and the rules of a recorded  *)
(* run, joined by data_recorder                                            *)
SavedRows ==
    { [shape |-> "hexagon", lifeform_birth_rules |-> join_rules({2}),
       lifeform_survival_rules |-> join_rules({3, 5})],
      [shape |-> "triangle", lifeform_birth_rules |-> join_rules({1, 3}),
       lifeform_survival_rules |-> join_rules({2})] }

(* SettingsPanel.load_selected_rules: the panel's selections keep their value *)
LoadSelectedRules ==
    /\ game.status = "ok"
    /\ \E row \in SavedRows :
          apply_ruleset_to_lifeform([game EXCEPT !.shape = row.shape], 0,
                                    row.lifeform_birth_rules, row.lifeform_survival_rules)

(* GameOfLife.update_simulation: grid.update() runs, then its value is     *)
(* unpacked into eight names; a value of another length raises ValueError  *)
(* before any counter of the game is touched                               *)
UpdateSimulation ==
    /\ game.status = "ok"
    /\ GridStep(MaxTicks)
    /\ game' = IF Len(result') = 8
               THEN [game EXCEPT !.generation = @ + 1,
                                 !.total_births = @ + result'[1],
                                 !.total_deaths = @ + result'[2]]
               ELSE [game EXCEPT !.status = "ValueError"]
    /\ UNCHANGED << panel, genome, call, run, discovery, store >>

(* GameOfLife.__init__ and SettingsPanel.__init__ *)
InitGame ==
    /\ \E seed \in 0 .. MaxSeed :
          game = [shape |-> "square", triangle_mode |-> "edge+vertex",
                  number_of_lifeforms |-> 1,
                  lifeforms |-> randomise_lifeforms("square", "edge+vertex", seed),
                  initial_alive_percentage |-> 50,
                  generation |-> 0, total_births |-> 0, total_deaths |-> 0,
                  status |-> "ok"]
    /\ panel = [selections |-> [shape |-> game.shape, mode |-> game.triangle_mode]]
    /\ topo = factory_topo(game.shape, game.triangle_mode, TRUE)
    /\ lifeforms = SubSeq(game.lifeforms, 1, game.number_of_lifeforms)
    /\ InitCells(game.initial_alive_percentage)
    /\ genome = NoGenome
    /\ call = NoCall
    /\ run = NoRun
    /\ discovery = NoDiscovery
    /\ store = NoStore

NextGame ==
    \/ SelectGridShape
    \/ SelectTriangleNeighborhood
    \/ ApplySettings
    \/ RandomiseLifeforms
    \/ UpdateNumberOfLifeforms
    \/ ApplyRuleset
    \/ LoadSelectedRules
    \/ UpdateSimulation

SpecGame == InitGame /\ [][NextGame]_vars

(***************************************************************************)
(* Long runs: one Conway lifeform on the square grid, stepped LongRun      *)
(* times, so that a cell can stay alive for more than 2^(LifespanBits-1)   *)
(* generations.                                                            *)
(***************************************************************************)
InitLong ==
    /\ Init
    /\ topo.shape = "square"
    /\ Len(lifeforms) = 1

NextLong == Update(LongRun)

SpecLong == InitLong /\ [][NextLong]_vars

(***************************************************************************)
(* Genomes of the rule discovery (rule_discovery.py).  A gene is a string  *)
(* of '0' and '1', modelled as the sequence of its characters; a Rule is   *)
(* its birth set and its survive set.                                      *)
(***************************************************************************)
Rule(birth, survive) == [birth |-> birth, survive |-> survive]

(* an encoding whose survive half starts one position early *)
rule_to_gene_overlap(rule, N) ==
    [k \in 1 .. 2 * (N + 1) |->
        IF \/ \E b \in rule.birth : 0 <= b /\ b <= N /\ k = b + 1
           \/ \E sv \in rule.survive : 0 <= sv /\ sv <= N /\ k = sv + N + 1
        THEN "1" ELSE "0"]

rule_to_gene(rule, N) ==
    [k \in 1 .. 2 * (N + 1) |->
        IF \/ \E b \in rule.birth : 0 <= b /\ b <= N /\ k = b + 1
           \/ \E sv \in rule.survive : 0 <= sv /\ sv <= N /\ k = sv + N + 1 + 1
        THEN "1" ELSE "0"]

(* gene[lo:] of a slice gene[:hi], positions from 0 *)
gene_to_rule(gene, N) ==
    Rule({i \in 0 .. Min(N + 1, Len(gene)) - 1 : gene[i + 1] = "1"},
         {i \in 0 .. Len(gene) - (N + 1) - 1 : gene[i + (N + 1) + 1] = "1"})

(* the bit-strings of length n *)
Genes(n) == [1 .. n -> {"0", "1"}]

(* rules over 0 .. N + 1: one value lies outside the range a genome for N  *)
(* covers                                                                  *)
Rules(N) == {Rule(b, sv) : b \in SUBSET (0 .. N + 1), sv \in SUBSET (0 .. N + 1)}

(* no grid is involved in a conversion *)
NoGrid ==
    /\ game = NoGame
    /\ panel = NoPanel
    /\ topo = factory_topo("square", "none", TRUE)
    /\ lifeforms = << >>
    /\ grid = [cell \in Cells |-> 0]
    /\ grid_lifespans = [cell \in Cells |-> 0]
    /\ InitCells(0)

(* decode a gene, and encode the rule again *)
GeneToRule ==
    /\ \E N \in 0 .. MaxN :
          \E gene \in Genes(2 * (N + 1)) :
             genome' = [op |-> "gene_to_rule", N |-> N, gene |-> gene,
                        rule |-> gene_to_rule(gene, N),
                        back |-> rule_to_gene(gene_to_rule(gene, N), N)]
    /\ UNCHANGED << game, panel, gridVars, call, run, discovery, store >>

(* encode a rule, and decode the gene again *)
RuleToGene ==
    /\ \E N \in 0 .. MaxN :
          \E rule \in Rules(N) :
             genome' = [op |-> "rule_to_gene", N |-> N, rule |-> rule,
                        gene |-> rule_to_gene(rule, N),
                        back |-> gene_to_rule(rule_to_gene(rule, N), N)]
    /\ UNCHANGED << game, panel, gridVars, call, run, discovery, store >>

MaxMutationRate == 3

(* the loop of mutate: each index drawn is toggled in turn *)
RECURSIVE flip_each(_, _)
flip_each(gene_list, draws) ==
    IF draws = << >> THEN gene_list
    ELSE flip_each([gene_list EXCEPT ![Head(draws) + 1] = IF @ = "0" THEN "1" ELSE "0"],
                   Tail(draws))

(* a variant that writes '1' at every index drawn *)
mutate_set_only(gene, draws) ==
    [k \in 1 .. Len(gene) |->
        IF \E j \in 1 .. Len(draws) : draws[j] + 1 = k THEN "1" ELSE gene[k]]

(* mutate(gene); draws are the values of random.randint(0, len - 1), one   *)
(* for each of the MUTATION_RATE rounds                                    *)
mutate(gene, draws) == flip_each(gene, draws)

(* one call of mutate, with MUTATION_RATE = Len(draws) *)
Mutate ==
    /\ genome = NoGenome
    /\ \E N \in 0 .. MaxN, MUTATION_RATE \in 0 .. MaxMutationRate :
          \E gene \in Genes(2 * (N + 1)) :
             \E draws \in [1 .. MUTATION_RATE -> 0 .. Len(gene) - 1] :
                genome' = [op |-> "mutate", N |-> N, gene |-> gene, draws |-> draws,
                           mutated |-> mutate(gene, draws)]
    /\ UNCHANGED << game, panel, gridVars, call, run, discovery, store >>

InitGene ==
    /\ NoGrid
    /\ genome = NoGenome
    /\ call = NoCall
    /\ run = NoRun
    /\ discovery = NoDiscovery
    /\ store = NoStore

NextGene ==
    \/ GeneToRule
    \/ RuleToGene

SpecGene == InitGene /\ [][NextGene]_vars

NextMutate == Mutate

SpecMutate == InitGene /\ [][NextMutate]_vars

(***************************************************************************)
(* Library calls: neighbor_utils.get_max_neighbors and                     *)
(* grid_factory.create_grid called with any names and sizes, zero sizes    *)
(* and unknown names included.  The outcome of the call is kept in call.   *)
(***************************************************************************)
MaxSide == 2

ShapeNames == {"square", "hexagon", "triangle", "Square", "HEXAGON", "octagon"}
ModeNames == {"edge", "edge+vertex", "Edge", "corner"}

(* the division of SquareGrid.create_grid and of the resize methods, made  *)
(* only when both available sizes are given: the divisors that are zero    *)
(* for a zero width or height                                              *)
cell_size_divides_by_zero(shape, grid_width, grid_height) ==
    IF shape = "square" THEN grid_width = 0 \/ grid_height = 0
    ELSE IF shape = "hexagon" THEN grid_width = 0 \/ grid_height = 0
    ELSE grid_height = 0

(* SquareGrid.__init__: the arrays are allocated and create_grid seeds     *)
(* them; the grid object is summarised by its class, its number of cells   *)
(* and its number of seeded cells                                          *)
grid_init(class, shape, grid_width, grid_height, available, pct) ==
    IF available /\ cell_size_divides_by_zero(shape, grid_width, grid_height)
    THEN Raises("ZeroDivisionError")
    ELSE Returns([class |-> class, size |-> grid_width * grid_height,
                  alive |-> (grid_width * grid_height * pct) \div 100])

(* grid_factory.create_grid, with the constructors it calls *)
create_grid(shape, triangle_neighborhood_mode, grid_width, grid_height, available, pct) ==
    IF shape = "triangle"
    THEN IF lower(triangle_neighborhood_mode) \notin TriangleModes
         THEN Raises("ValueError")
         ELSE grid_init("TriangleGridNumpy", shape, grid_width, grid_height, available, pct)
    ELSE IF shape = "square"
    THEN grid_init("SquareGrid", shape, grid_width, grid_height, available, pct)
    ELSE IF shape = "hexagon"
    THEN grid_init("HexagonGridNumpy", shape, grid_width, grid_height, available, pct)
    ELSE Raises("ValueError")

GetMaxNeighbors ==
    /\ \E grid_shape \in ShapeNames, triangle_mode \in ModeNames :
          call' = [op |-> "get_max_neighbors", grid_shape |-> grid_shape,
                   triangle_mode |-> triangle_mode,
                   outcome |-> get_max_neighbors(grid_shape, triangle_mode)]
    /\ UNCHANGED << game, panel, gridVars, genome, run, discovery, store >>

FactoryCreateGrid ==
    /\ \E shape \in ShapeNames, mode \in ModeNames,
          grid_width \in 0 .. MaxSide, grid_height \in 0 .. MaxSide,
          available \in BOOLEAN, pct \in SeedPcts :
          call' = [op |-> "create_grid", shape |-> shape,
                   triangle_neighborhood_mode |-> mode,
                   grid_width |-> grid_width, grid_height |-> grid_height,
                   available |-> available, initial_alive_percentage |-> pct,
                   outcome |-> create_grid(shape, mode, grid_width, grid_height,
                                           available, pct)]
    /\ UNCHANGED << game, panel, gridVars, genome, run, discovery, store >>

InitCall ==
    /\ NoGrid
    /\ genome = NoGenome
    /\ call = NoCall
    /\ run = NoRun
    /\ discovery = NoDiscovery
    /\ store = NoStore

NextCall ==
    \/ GetMaxNeighbors
    \/ FactoryCreateGrid

SpecCall == InitCall /\ [][NextCall]_vars

(***************************************************************************)
(* The neighbour maps of the numpy grids for any width and height.         *)
(***************************************************************************)
MaxMapSide == 5

(* self.neighbor_map of HexagonGridNumpy and TriangleGridNumpy: for each   *)
(* cell_index r * grid_width + c the indices nr * grid_width + nc its      *)
(* offsets lead to, reduced modulo the sides when self.wrap and dropped    *)
(* outside the grid otherwise                                              *)
_create_neighbor_map(kind, grid_width, grid_height) ==
    [cell_index \in 0 .. grid_width * grid_height - 1 |->
        LET r == cell_index \div grid_width
            c == cell_index % grid_width
        IN  {IF kind.wrap
             THEN ((r + o[1]) % grid_height) * grid_width + ((c + o[2]) % grid_width)
             ELSE (r + o[1]) * grid_width + (c + o[2]) :
                o \in {d \in cell_offsets(kind, r, c) :
                          \/ kind.wrap
                          \/ /\ r + d[1] \in 0 .. grid_height - 1
                             /\ c + d[2] \in 0 .. grid_width - 1}}]

(* the constructor of a numpy grid, up to the neighbour map *)
CreateNeighborMap ==
    /\ call = NoCall
    /\ \E kind \in {t \in Topologies : t.shape /= "square"},
          grid_width \in 1 .. MaxMapSide, grid_height \in 1 .. MaxMapSide :
          call' = [op |-> "_create_neighbor_map", topo |-> kind,
                   grid_width |-> grid_width, grid_height |-> grid_height,
                   neighbor_map |-> _create_neighbor_map(kind, grid_width, grid_height)]
    /\ UNCHANGED << game, panel, gridVars, genome, run, discovery, store >>

SpecMap == InitCall /\ [][CreateNeighborMap]_vars

(***************************************************************************)
(* experiments.runner.run_timeseries on a grid of one lifeform, one loop   *)
(* iteration at a time.  run holds the function's arguments and locals:    *)
(* step is the index the loop handles next; rho is kept as the number of   *)
(* live cells (rho times total_cells), activity and epsilon in the same    *)
(* unit; frozen_at is << >> for None and << t >> once set.                 *)
(***************************************************************************)
MaxSteps == 5

RunSteps == 0 .. MaxSteps
BurnInFracs == {0, 40}
FreezeWindows == {1, 2}
Epsilons == {0, 1}

abs(x) == IF x < 0 THEN 0 - x ELSE x

(* burn_in = int(steps * burn_in_frac), the fraction in percent *)
burn_in_of(steps, burn_in_frac) == (steps * burn_in_frac) \div 100

(* a variant that steps the grid before every sample, the first included *)
steps_grid_always(step) == step >= 0

(* if step > 0: grid.update() *)
steps_grid(step) == step > 0

(* a variant that counts quiet steps before burn_in too *)
counts_quiet_early(step, burn_in, activity, epsilon) == activity <= epsilon

(* if step >= burn_in and activity[step] <= epsilon *)
counts_quiet(step, burn_in, activity, epsilon) ==
    step >= burn_in /\ activity <= epsilon

(* a variant without the test that frozen_at is None *)
sets_frozen_at_again(quiet_streak, freeze_window, frozen_at) ==
    quiet_streak >= freeze_window

(* if quiet_streak >= freeze_window and frozen_at is None *)
sets_frozen_at(quiet_streak, freeze_window, frozen_at) ==
    quiet_streak >= freeze_window /\ frozen_at = << >>

(* the call, up to the loop *)
RunTimeseries ==
    /\ run = NoRun
    /\ discovery = NoDiscovery
    /\ store = NoStore
    /\ \E steps \in RunSteps, burn_in_frac \in BurnInFracs,
          freeze_window \in FreezeWindows, epsilon \in Epsilons :
          run' = [status |-> "running", lifeform_id |-> lifeforms[1].id,
                  steps |-> steps, burn_in_frac |-> burn_in_frac,
                  epsilon |-> epsilon, freeze_window |-> freeze_window,
                  rho |-> << >>, activity |-> << >>,
                  frozen_at |-> << >>, quiet_streak |-> 0,
                  burn_in |-> burn_in_of(steps, burn_in_frac),
                  step |-> 0]
    /\ UNCHANGED << game, panel, gridVars, genome, call, discovery, store >>

(* one iteration of the loop *)
RunIteration ==
    /\ run.status = "running"
    /\ run.step < run.steps
    /\ IF steps_grid(run.step) THEN GridStep(MaxSteps) ELSE UNCHANGED gridVars
    /\ LET step == run.step
           alive == Cardinality({cell \in Cells : grid'[cell] = run.lifeform_id})
           activity == IF step > 0 THEN abs(alive - run.rho[step]) ELSE 0
           quiet == step > 0 /\ counts_quiet(step, run.burn_in, activity, run.epsilon)
           quiet_streak == IF step > 0
                           THEN (IF quiet THEN run.quiet_streak + 1 ELSE 0)
                           ELSE run.quiet_streak
           frozen_at == IF quiet /\ sets_frozen_at(quiet_streak, run.freeze_window,
                                                    run.frozen_at)
                        THEN << step >>
                        ELSE run.frozen_at
       IN  run' = [run EXCEPT !.rho = Append(@, alive),
                              !.activity = Append(@, activity),
                              !.quiet_streak = quiet_streak,
                              !.frozen_at = frozen_at,
                              !.step = step + 1]
    /\ UNCHANGED << game, panel, genome, call, discovery, store >>

(* the loop is over and the result is returned *)
RunReturn ==
    /\ run.status = "running"
    /\ run.step = run.steps
    /\ run' = [run EXCEPT !.status = "done"]
    /\ UNCHANGED << game, panel, gridVars, genome, call, discovery, store >>

(* make_grid builds the grid with a single lifeform *)
InitRun ==
    /\ Init
    /\ Len(lifeforms) = 1

NextRun ==
    \/ RunTimeseries
    \/ RunIteration
    \/ RunReturn

SpecRun == InitRun /\ [][NextRun]_vars

(***************************************************************************)
(* experiments.runner.make_grid and run_damage_spreading.  The numpy       *)
(* generator is a state that np.random.seed sets and every draw advances;  *)
(* without a seed the draws start from whatever state the generator is in. *)
(* grid_a is the grid object of the state, grid_b is kept in run; H is     *)
(* kept as the number of differing cells (H times total).                  *)
(***************************************************************************)
MaxFlips == 2
MaxDamageSteps == 3
RngStates == 7

(* seed = None is << >>, seed = n is << n >> *)
Seeds == {<< >>, << 0 >>, << 1 >>, << 4 >>}
FlipCounts == (0 .. MaxFlips) \cup {GridW * GridH + 1}

(* a variant that leaves the generator as it is *)
seeded_state_never(seed, ambient) == ambient

(* if seed is not None: np.random.seed(seed) *)
seeded_state(seed, ambient) ==
    IF seed = << >> THEN ambient ELSE seed[1] % RngStates

(* the generator after one draw *)
np_next(state) == (3 * state + 1) % RngStates

(* np.random.choice(n, k, replace=False): k distinct indices *)
np_choice(state, n, k) == {(state + 2 * (state \div 3) + j) % n : j \in 0 .. k - 1}

(* np.unravel_index on the grid's shape *)
unravel_index(i) == <<i \div GridW, i % GridW>>

(* make_grid: the arrays of the new grid of the single lifeform lf, and    *)
(* the generator after create_grid's two draws                             *)
make_grid(lf, pct, seed, ambient) ==
    LET state == seeded_state(seed, ambient)
        k == num_alive_cells(pct)
        alive == {unravel_index(i) : i \in np_choice(state, GridW * GridH, k)}
    IN  [grid |-> [cell \in Cells |-> IF cell \in alive THEN lf.id ELSE 0],
         lifespans |-> [cell \in Cells |-> IF cell \in alive THEN 1 ELSE 0],
         state |-> IF k > 0 THEN np_next(np_next(state)) ELSE state]

(* a variant that always flips at least one cell *)
flip_count_at_least_one(flip_cells, total) ==
    IF flip_cells = 0 THEN 1 ELSE IF flip_cells < total THEN flip_cells ELSE total

(* flip_cells = min(flip_cells, total) *)
flip_count(flip_cells, total) == Min(flip_cells, total)

(* a variant that only brings dead cells to life *)
perturb_dead_only(g, l, id, flipped) ==
    [grid |-> [cell \in Cells |->
                 IF cell \in flipped /\ g[cell] = 0 THEN id ELSE g[cell]],
     lifespans |-> [cell \in Cells |->
                 IF cell \in flipped /\ g[cell] = 0 THEN 1 ELSE l[cell]]]

(* the perturbation of grid_b: the cells drawn are toggled *)
perturb(g, l, id, flipped) ==
    [grid |-> [cell \in Cells |->
                 IF cell \in flipped THEN (IF g[cell] = 0 THEN id ELSE 0) ELSE g[cell]],
     lifespans |-> [cell \in Cells |->
                 IF cell \in flipped THEN (IF g[cell] = 0 THEN 1 ELSE 0) ELSE l[cell]]]

(* np.count_nonzero of a grid *)
Alive0(g) == {cell \in Cells : g[cell] /= 0}

(* np.mean(grid_a.grid != grid_b.grid), times total *)
disagreement(ga, gb) == Cardinality({cell \in Cells : ga[cell] /= gb[cell]})

(* the new grid object of the state *)
NewGrid(g, pct) ==
    /\ grid' = g.grid
    /\ grid_lifespans' = g.lifespans
    /\ generation' = 0
    /\ result' = << >>
    /\ pre_grid' = g.grid
    /\ pre_lifespans' = g.lifespans
    /\ last_op' = [op |-> "create", initial_alive_percentage |-> pct]
    /\ UNCHANGED << topo, lifeforms, clicks >>

(* run_damage_spreading, up to the loop *)
RunDamageSpreading ==
    /\ run = NoRun
    /\ \E steps \in 0 .. MaxDamageSteps, seed \in Seeds, ambient \in 0 .. RngStates - 1,
          flip_cells \in FlipCounts, pct \in SeedPcts :
          LET lf == lifeforms[1]
              grid_a == make_grid(lf, pct, seed, ambient)
              total == GridW * GridH
              flat_indices == np_choice(grid_a.state, total, flip_count(flip_cells, total))
              flipped == {unravel_index(i) : i \in flat_indices}
              grid_b == perturb(grid_a.grid, grid_a.lifespans, lf.id, flipped)
          IN  /\ NewGrid(grid_a, pct)
              /\ run' = [op |-> "damage",
                         status |-> IF steps = 0 THEN "IndexError" ELSE "running",
                         steps |-> steps, seed |-> seed, flip_cells |-> flip_cells,
                         initial_alive_percentage |-> pct,
                         grid_a0 |-> grid_a.grid, lifespans_a0 |-> grid_a.lifespans,
                         grid_b0 |-> grid_b.grid, lifespans_b0 |-> grid_b.lifespans,
                         grid_b |-> grid_b.grid, lifespans_b |-> grid_b.lifespans,
                         generation_b |-> 0,
                         H |-> IF steps = 0 THEN << >>
                               ELSE << disagreement(grid_a.grid, grid_b.grid) >>,
                         t |-> 1]
    /\ UNCHANGED << game, panel, genome, call, discovery, store >>

(* grid_b.update(): one outcome for each way its parents are picked *)
UpdateB(r) ==
    {[r EXCEPT !.grid_b = next_grid(topo, lifeforms, r.grid_b, r.lifespans_b, chosen),
               !.lifespans_b = next_lifespans(topo, lifeforms, r.grid_b, r.lifespans_b,
                                              chosen),
               !.generation_b = @ + 1] :
        chosen \in parent_choices(topo, lifeforms, r.grid_b)}

(* one iteration of the loop: both grids are updated, H[t] is recorded *)
DamageIteration ==
    /\ run.status = "running"
    /\ run.op = "damage"
    /\ run.t < run.steps
    /\ GridStep(MaxDamageSteps)
    /\ \E r \in UpdateB(run) :
          run' = [r EXCEPT !.H = Append(@, disagreement(grid', r.grid_b)),
                           !.t = @ + 1]
    /\ UNCHANGED << game, panel, genome, call, discovery, store >>

(* the loop is over and H is returned *)
DamageReturn ==
    /\ run.status = "running"
    /\ run.op = "damage"
    /\ run.t >= run.steps
    /\ run' = [run EXCEPT !.status = "done"]
    /\ UNCHANGED << game, panel, gridVars, genome, call, discovery, store >>

(* two runs: each makes a grid with its own seed, then both are stepped    *)
(* the same number of times                                                *)
MakeGridTwice ==
    /\ run = NoRun
    /\ \E seed_a \in Seeds, seed_b \in Seeds,
          ambient_a \in 0 .. RngStates - 1, ambient_b \in 0 .. RngStates - 1,
          pct \in SeedPcts :
          LET grid_a == make_grid(lifeforms[1], pct, seed_a, ambient_a)
              grid_b == make_grid(lifeforms[1], pct, seed_b, ambient_b)
          IN  /\ NewGrid(grid_a, pct)
              /\ run' = [op |-> "pair", status |-> "running",
                         seed_a |-> seed_a, seed_b |-> seed_b,
                         grid_b |-> grid_b.grid, lifespans_b |-> grid_b.lifespans,
                         generation_b |-> 0,
                         population_a |-> << Cardinality(Alive0(grid_a.grid)) >>,
                         population_b |-> << Cardinality(Alive0(grid_b.grid)) >>]
    /\ UNCHANGED << game, panel, genome, call, discovery, store >>

(* one more step of both runs *)
StepTwice ==
    /\ run.status = "running"
    /\ run.op = "pair"
    /\ GridStep(MaxDamageSteps)
    /\ \E r \in UpdateB(run) :
          run' = [r EXCEPT !.population_a = Append(@, Cardinality(Alive0(grid'))),
                           !.population_b = Append(@, Cardinality(Alive0(r.grid_b)))]
    /\ UNCHANGED << game, panel, genome, call, discovery, store >>

(* single lifeforms the runner is called with *)
RunnerRules ==
    { << Lifeform(1, {3}, {2, 3}) >>, << Lifeform(1, {2}, {1, 2}) >> }

InitDamage ==
    /\ game = NoGame
    /\ panel = NoPanel
    /\ genome = NoGenome
    /\ call = NoCall
    /\ run = NoRun
    /\ discovery = NoDiscovery
    /\ store = NoStore
    /\ topo \in Topologies
    /\ lifeforms \in RunnerRules
    /\ grid = [cell \in Cells |-> 0]
    /\ grid_lifespans = [cell \in Cells |-> 0]
    /\ InitCells(0)

NextDamage ==
    \/ RunDamageSpreading
    \/ DamageIteration
    \/ DamageReturn
    \/ MakeGridTwice
    \/ StepTwice

SpecDamage == InitDamage /\ [][NextDamage]_vars

(***************************************************************************)
(* analysis.criticality_score.  A float is a record: nan, or a value in    *)
(* thousandths; quotients and square roots are rounded down to the         *)
(* thousandth.  Comparisons with nan are false, as in Python, and min and  *)
(* max are Python's: the second argument wins only when the comparison is  *)
(* true.  An array is the sequence of its values.                          *)
(***************************************************************************)
MaxScoreSteps == 5
MaxSeriesLen == 2

Float(v) == [nan |-> FALSE, v |-> v]
NaN == [nan |-> TRUE, v |-> 0]

lt(a, b) == ~a.nan /\ ~b.nan /\ a.v < b.v
py_min(a, b) == IF lt(b, a) THEN b ELSE a
py_max(a, b) == IF lt(a, b) THEN b ELSE a
plus(a, b) == IF a.nan \/ b.nan THEN NaN ELSE Float(a.v + b.v)
times(a, b) == IF a.nan \/ b.nan THEN NaN ELSE Float((a.v * b.v) \div 1000)
over(a, b) == IF a.nan \/ b.nan THEN NaN ELSE Float((a.v * 1000) \div b.v)

RECURSIVE np_sum(_)
np_sum(x) == IF x = << >> THEN 0 ELSE Head(x) + np_sum(Tail(x))

RECURSIVE sqrt_between(_, _, _)
sqrt_between(lo, hi, x) ==
    IF lo >= hi THEN lo
    ELSE LET mid == (lo + hi + 1) \div 2
         IN  IF mid <= x \div mid THEN sqrt_between(mid, hi, x)
             ELSE sqrt_between(lo, mid - 1, x)

(* np.mean: nan for an empty array *)
np_mean(x) == IF x = << >> THEN NaN ELSE Float(np_sum(x) \div Len(x))

(* np.std: nan for an empty array *)
np_std(x) ==
    IF x = << >> THEN NaN
    ELSE LET mean == np_sum(x) \div Len(x)
             var == np_sum([k \in 1 .. Len(x) |-> (x[k] - mean) * (x[k] - mean)]) \div Len(x)
         IN  Float(sqrt_between(0, var, var))

(* int(steps * 0.4): truncated towards zero *)
burn_in_index(steps) ==
    IF steps >= 0 THEN (4 * steps) \div 10 ELSE 0 - ((4 * (0 - steps)) \div 10)

(* x[start:] *)
slice_from(x, start) ==
    IF start >= 0 THEN SubSeq(x, start + 1, Len(x))
    ELSE SubSeq(x, Max(Len(x) + start, 0) + 1, Len(x))

(* whether x[i] raises IndexError *)
index_out_of_range(x, i) == IF i >= 0 THEN i >= Len(x) ELSE 0 - i > Len(x)

(* x[i], for an index in range *)
item(x, i) == IF i >= 0 THEN x[i + 1] ELSE x[Len(x) + i + 1]

_band_score(value, low, high, target_low, target_high) ==
    IF lt(value, Float(low)) \/ lt(Float(high), value) THEN Float(0)
    ELSE IF lt(value, Float(target_low))
         THEN Float(((value.v - low) * 1000) \div (target_low - low))
    ELSE IF lt(Float(target_high), value)
         THEN Float(((high - value.v) * 1000) \div (high - target_high))
    ELSE Float(1000)

(* the score once the damage term is known *)
combine(rho, activity, frozen_at, steps, damage_score) ==
    LET burn_in == burn_in_index(steps)
        rho_post == slice_from(rho, burn_in)
        activity_post == slice_from(activity, burn_in)
        rho_mean == np_mean(rho_post)
        rho_std == np_std(rho_post)
        act_mean == np_mean(activity_post)
        act_std == np_std(activity_post)
        alive_score == _band_score(rho_mean, 0, 600, 50, 400)
        activity_score == _band_score(act_mean, 0, 200, 5, 50)
        rho_var_score == py_min(over(rho_std, Float(100)), Float(1000))
        act_var_score == py_min(over(act_std, Float(50)), Float(1000))
        freeze_penalty ==
            IF frozen_at = << >> THEN Float(0)
            ELSE py_max(Float(0), Float(1000 - (frozen_at[1] * 1000) \div Max(1, steps)))
        score == plus(plus(plus(plus(times(Float(300), alive_score),
                                     times(Float(200), activity_score)),
                                times(Float(150), rho_var_score)),
                           times(Float(150), act_var_score)),
                      times(Float(200), damage_score))
        scaled == times(score, Float(1000 - (500 * freeze_penalty.v) \div 1000))
    IN  py_max(Float(0), py_min(Float(1000), scaled))

(* score_timeseries; H = None is << >>, an array H is << H >> *)
score_timeseries(rho, activity, frozen_at, steps, H) ==
    IF Len(rho) = 0 \/ Len(activity) = 0 THEN Returns(0)
    ELSE LET burn_in == burn_in_index(steps)
         IN  IF H /= << >> /\ Len(H[1]) >= steps
             THEN IF index_out_of_range(H[1], 0 - 1) \/ index_out_of_range(H[1], burn_in)
                  THEN Raises("IndexError")
                  ELSE LET H_post == slice_from(H[1], burn_in)
                           h_mean == np_mean(H_post)
                           h_growth == Float(item(H[1], 0 - 1) - item(H[1], burn_in))
                           h_band == _band_score(h_mean, 0, 800, 100, 400)
                           h_growth_band == _band_score(h_growth, 0 - 50, 600, 20, 200)
                           damage_score == plus(times(Float(500), h_band),
                                                times(Float(500), h_growth_band))
                       IN  Returns(combine(rho, activity, frozen_at, steps, damage_score).v)
             ELSE Returns(combine(rho, activity, frozen_at, steps, Float(0)).v)

(* values of the series, in thousandths *)
SeriesValues == {0, 30, 300, 1500}
RECURSIVE SeqsUpTo(_, _)
SeqsUpTo(S, n) ==
    IF n = 0 THEN {<< >>}
    ELSE SeqsUpTo(S, n - 1) \cup [1 .. n -> S]
Series == SeqsUpTo(SeriesValues, MaxSeriesLen)

(* one call of score_timeseries *)
ScoreTimeseries ==
    /\ call = NoCall
    /\ \E rho \in Series, activity \in Series, steps \in (0 - 3) .. MaxScoreSteps,
          frozen_at \in {<< >>, << 0 - 1 >>, << 0 >>, << 2 >>},
          H \in {<< >>} \cup {<< h >> : h \in Series} :
          call' = [op |-> "score_timeseries", rho |-> rho, activity |-> activity,
                   frozen_at |-> frozen_at, steps |-> steps, H |-> H,
                   result |-> score_timeseries(rho, activity, frozen_at, steps, H)]
    /\ UNCHANGED << game, panel, gridVars, genome, run, discovery, store >>

NextScore == ScoreTimeseries

SpecScore == InitCall /\ [][NextScore]_vars

(***************************************************************************)
(* The discovery store (rule_discovery.save_rule).  The file               *)
(* discovered_rules_<SHAPE>.json is absent, or holds text json.load        *)
(* rejects ("corrupt"; an empty file is one), or the JSON value null, or a *)
(* JSON list.  A B/S string is the sequence of its characters.             *)
(***************************************************************************)
File(kind, rules) == [kind |-> kind, rules |-> rules]

(* the characters of str(v) for a count 0 <= v <= 99 *)
chars(v) == IF v >= 10 THEN << str(v \div 10), str(v % 10) >> ELSE << str(v) >>

(* "".join(str(v) for v in sorted(values)): the characters follow each     *)
(* other with nothing between two values                                   *)
RECURSIVE join_empty(_)
join_empty(values) ==
    IF values = {} THEN << >>
    ELSE chars(SetMin(values)) \o join_empty(values \ {SetMin(values)})

(* Rule.to_bs_string *)
to_bs_string(rule, N) ==
    << "B" >> \o join_empty({x \in rule.birth : x <= N})
        \o << "/", "S" >> \o join_empty({x \in rule.survive : x <= N})

format_rule_string(gene, N) == to_bs_string(gene_to_rule(gene, N), N)

(***************************************************************************)
(* The canonical strings of the genomes of every supported lattice:        *)
(* NEIGHBOR_COUNT = get_max_neighbors(SHAPE, TRIANGLE_MODE) and            *)
(* GENE_LENGTH = 2 * (NEIGHBOR_COUNT + 1).                                 *)
(***************************************************************************)
MaxOnes == 2

(* the sets of at most k positions out of 1 .. n *)
RECURSIVE PositionsUpTo(_, _)
PositionsUpTo(n, k) ==
    IF k = 0 THEN {{}}
    ELSE LET fewer == PositionsUpTo(n, k - 1)
         IN  fewer \cup {ps \cup {q} : ps \in fewer, q \in 1 .. n}

(* the genomes of length n with at most MaxOnes bits set *)
SparseGenes(n) ==
    {[k \in 1 .. n |-> IF k \in ps THEN "1" ELSE "0"] : ps \in PositionsUpTo(n, MaxOnes)}

LatticeConfigs ==
    {<<"square", "edge">>, <<"hexagon", "edge">>,
     <<"triangle", "edge">>, <<"triangle", "edge+vertex">>}

FormatRuleString ==
    /\ call = NoCall
    /\ \E config \in LatticeConfigs :
          LET NEIGHBOR_COUNT == get_max_neighbors(config[1], config[2]).returned[1]
              GENE_LENGTH == 2 * (NEIGHBOR_COUNT + 1)
          IN  \E gene \in SparseGenes(GENE_LENGTH) :
                 call' = [op |-> "format_rule_string",
                          NEIGHBOR_COUNT |-> NEIGHBOR_COUNT, gene |-> gene,
                          rule_str |-> format_rule_string(gene, NEIGHBOR_COUNT)]
    /\ UNCHANGED << game, panel, gridVars, genome, run, discovery, store >>

SpecString == InitCall /\ [][FormatRuleString]_vars

(* the outcomes of the operating system's part in one save *)
IoOutcomes == {"ok", "read_fails", "open_fails", "dump_fails"}

(* os.path.exists, open(filename, 'r') and json.load *)
load_rules(file, io) ==
    IF file.kind = "absent" THEN Returns(<< >>)
    ELSE IF io = "read_fails" THEN Raises("OSError")
    ELSE IF file.kind = "corrupt" THEN Returns(<< >>)
    ELSE IF file.kind = "null" THEN Returns("None")
    ELSE Returns(file.rules)

(* a variant that appends without looking the string up *)
store_rules_always(file, rules, rule_str, io) ==
    IF rules = "None" THEN [file |-> file, raised |-> "TypeError"]
    ELSE IF io = "open_fails" THEN [file |-> file, raised |-> "OSError"]
    ELSE IF io = "dump_fails" THEN [file |-> File("corrupt", << >>), raised |-> "OSError"]
    ELSE [file |-> File("list", Append(rules, rule_str)), raised |-> "none"]

(* if rule_str not in rules: append, open(filename, 'w'), json.dump; a     *)
(* failed open leaves the file as it was, a failed dump leaves it          *)
(* truncated                                                               *)
store_rules(file, rules, rule_str, io) ==
    IF rules = "None" THEN [file |-> file, raised |-> "TypeError"]
    ELSE IF \E k \in 1 .. Len(rules) : rules[k] = rule_str
         THEN [file |-> file, raised |-> "none"]
    ELSE IF io = "open_fails" THEN [file |-> file, raised |-> "OSError"]
    ELSE IF io = "dump_fails" THEN [file |-> File("corrupt", << >>), raised |-> "OSError"]
    ELSE [file |-> File("list", Append(rules, rule_str)), raised |-> "none"]

(* save_rule run by a single thread: the file after it and what it raised; *)
(* the with statement releases file_lock on both ways out                  *)
save_rule(file, rule_str, io) ==
    LET loaded == load_rules(file, io)
    IN  IF loaded.raised /= "none" THEN [file |-> file, raised |-> loaded.raised]
        ELSE store_rules(file, loaded.returned[1], rule_str, io)

(***************************************************************************)
(* discover_rules.  The population sizes are scaled down; the fitness of a *)
(* valid rule, which comes from unseeded simulations, is any of a few      *)
(* values.  discovery.i is the position in the evaluation loop.            *)
(***************************************************************************)
POPULATION_SIZE == 3
NUM_PARENTS == 2
MUTATION_RATE == 1
NUM_FRAMES == 200
MaxGenerations == 2

(* fitness values in thousandths *)
Scores == {500, 800, 900}

(* a variant that only looks at the birth rules *)
invalid_rule_no_birth(rule) == rule.birth = {}

(* not birth_rules or not survival_rules *)
invalid_rule(rule) == rule.birth = {} \/ rule.survive = {}

(* run_simulation_for_gene: the fitness, whether a grid was made and how   *)
(* many steps were run                                                     *)
run_simulation_for_gene(gene, N, fitness) ==
    IF invalid_rule(gene_to_rule(gene, N))
    THEN [score |-> 0, grid_made |-> FALSE, steps |-> 0]
    ELSE [score |-> fitness, grid_made |-> TRUE, steps |-> NUM_FRAMES]

(* one pass of the evaluation loop: a genome is scored and, above the      *)
(* threshold, saved; an exception of save_rule ends discover_rules         *)
Evaluate ==
    /\ discovery.status = "evaluating"
    /\ discovery.i <= Len(discovery.population)
    /\ \E fitness \in Scores, io \in IoOutcomes :
          LET gene == discovery.population[discovery.i]
              sim == run_simulation_for_gene(gene, discovery.N, fitness)
              saves == sim.score > 800
              saved == save_rule(store.file, format_rule_string(gene, discovery.N), io)
          IN  /\ discovery' =
                    [discovery EXCEPT
                       !.status = IF saves /\ saved.raised /= "none"
                                  THEN saved.raised ELSE "evaluating",
                       !.evaluated_population = Append(@, [gene |-> gene, score |-> sim.score]),
                       !.i = @ + 1,
                       !.last = [op |-> "evaluate", gene |-> gene, sim |-> sim,
                                 saves |-> saves]]
              /\ store' = IF saves THEN [store EXCEPT !.file = saved.file] ELSE store
    /\ UNCHANGED << game, panel, gridVars, genome, call, run >>

(* a variant that sorts ascending *)
sort_ascending(evaluated) ==
    LET before(a, b) ==
            \/ evaluated[a].score < evaluated[b].score
            \/ evaluated[a].score = evaluated[b].score /\ a < b
        place(a) == 1 + Cardinality({b \in 1 .. Len(evaluated) : before(b, a)})
    IN  [k \in 1 .. Len(evaluated) |->
            evaluated[CHOOSE a \in 1 .. Len(evaluated) : place(a) = k]]

(* evaluated_population.sort(key=score, reverse=True): stable *)
sort_descending(evaluated) ==
    LET before(a, b) ==
            \/ evaluated[a].score > evaluated[b].score
            \/ evaluated[a].score = evaluated[b].score /\ a < b
        place(a) == 1 + Cardinality({b \in 1 .. Len(evaluated) : before(b, a)})
    IN  [k \in 1 .. Len(evaluated) |->
            evaluated[CHOOSE a \in 1 .. Len(evaluated) : place(a) = k]]

(* selection, breeding and replacement; the next pass of while True begins *)
Breed ==
    /\ discovery.status = "evaluating"
    /\ discovery.i > Len(discovery.population)
    /\ discovery.generation_count < MaxGenerations
    /\ LET ranked == sort_descending(discovery.evaluated_population)
           parents == [k \in 1 .. Min(NUM_PARENTS, Len(ranked)) |-> ranked[k].gene]
           children == POPULATION_SIZE - Len(parents)
       IN  \E choice \in [1 .. children -> 1 .. Len(parents)],
              draws \in [1 .. children ->
                           [1 .. MUTATION_RATE -> 0 .. 2 * (discovery.N + 1) - 1]] :
              discovery' =
                 [discovery EXCEPT
                    !.population =
                        parents \o [k \in 1 .. children |->
                                       mutate(parents[choice[k]], draws[k])],
                    !.evaluated_population = << >>,
                    !.i = 1,
                    !.generation_count = @ + 1,
                    !.last = [op |-> "breed",
                              evaluated_population |-> discovery.evaluated_population]]
    /\ UNCHANGED << game, panel, gridVars, genome, call, run, store >>

(* genes Rule.random and rule_to_gene start from: one without rules, one   *)
(* without survival rules, two valid ones                                  *)
StartGenes(N) ==
    {rule_to_gene(rule, N) :
        rule \in {Rule({}, {}), Rule({1}, {}), Rule({1}, {0, 1}), Rule({0}, {1})}}

(* what the store's file may hold when the program starts *)
StartFiles ==
    {File("absent", << >>), File("corrupt", << >>), File("null", << >>),
     File("list", << >>),
     File("list", << to_bs_string(Rule({0}, {1}), 1) >>),
     File("list", << to_bs_string(Rule({1}, {0, 1}), 1),
                     to_bs_string(Rule({0}, {1}), 1),
                     to_bs_string(Rule({1}, {0, 1}), 1) >>)}

InitDiscovery ==
    /\ NoGrid
    /\ genome = NoGenome
    /\ call = NoCall
    /\ run = NoRun
    /\ \E N \in 1 .. MaxN :
          \E population \in [1 .. POPULATION_SIZE -> StartGenes(N)] :
             discovery = [status |-> "evaluating", N |-> N, population |-> population,
                          evaluated_population |-> << >>, i |-> 1,
                          generation_count |-> 1, last |-> [op |-> "start"]]
    /\ \E file \in StartFiles : store = [status |-> "ready", file |-> file]

NextDiscovery ==
    \/ Evaluate
    \/ Breed

SpecDiscovery == InitDiscovery /\ [][NextDiscovery]_vars

(* discover_rules runs in a thread of its own that is never blocked for    *)
(* good: every evaluation runs NUM_FRAMES steps and returns, and the sleep *)
(* at the end of a pass is 0.1 s                                           *)
SpecDiscoveryFair == SpecDiscovery /\ WF_vars(NextDiscovery)

(***************************************************************************)
(* The generator of the random module, which discover_rules, the grids and *)
(* the runner all draw from.  run.state is its state; an evaluation draws  *)
(* its seed from it and run_damage_spreading then seeds it with that seed. *)
(* The number of draws a simulation makes depends on the rule and the      *)
(* grid; it is any number up to MaxEvalDraws.                              *)
(***************************************************************************)
RandomStates == 11
MaxSeedDrawn == 4
MaxEvalDraws == 2
MaxLoopDraws == 3
MaxEvaluations == 2

(* a variant in which an evaluation seeds a generator of its own *)
random_seed_local(seed, ambient) == ambient

(* random.seed(seed) on the generator of the module *)
random_seed(seed, ambient) == seed % RandomStates

(* the generator after one draw *)
random_next(state) == (3 * state + 1) % RandomStates

(* the generator after n draws *)
RECURSIVE advance(_, _)
advance(state, n) == IF n = 0 THEN state ELSE advance(random_next(state), n - 1)

(* run_simulation_for_gene of a valid rule: make_grid(seed=None) and       *)
(* run_timeseries draw from the generator, random.randint gives the seed,  *)
(* run_damage_spreading seeds the generator with it and draws again        *)
EvaluateGene ==
    /\ run.evaluations < MaxEvaluations
    /\ \E unseeded \in 0 .. MaxEvalDraws, seeded \in 0 .. MaxEvalDraws :
          LET before == advance(run.state, unseeded)
              seed == randint(0, MaxSeedDrawn, before)
          IN  run' = [run EXCEPT
                        !.state = advance(random_seed(seed, random_next(before)), seeded),
                        !.evaluations = @ + 1,
                        !.last = [op |-> "evaluate", seed |-> seed,
                                  drawn_at |-> before, seeded_draws |-> seeded,
                                  previous |-> run.last]]
    /\ UNCHANGED << game, panel, gridVars, genome, call, discovery, store >>

(* random.choice(parents) and mutate's random.randint in discover_rules *)
LoopDraw ==
    /\ run.loop_draws < MaxLoopDraws
    /\ run' = [run EXCEPT
                 !.state = random_next(@),
                 !.loop_draws = @ + 1,
                 !.last = [op |-> "loop_draw",
                           value |-> randint(0, NUM_PARENTS - 1, run.state)]]
    /\ UNCHANGED << game, panel, gridVars, genome, call, discovery, store >>

(* a draw by the game's grid in the main thread: random.choice of a parent *)
(* in update                                                               *)
GameDraw ==
    /\ run.loop_draws < MaxLoopDraws
    /\ run' = [run EXCEPT
                 !.state = random_next(@),
                 !.loop_draws = @ + 1,
                 !.last = [op |-> "game_draw", value |-> randint(0, 1, run.state)]]
    /\ UNCHANGED << game, panel, gridVars, genome, call, discovery, store >>

InitSeed ==
    /\ NoGrid
    /\ genome = NoGenome
    /\ call = NoCall
    /\ discovery = NoDiscovery
    /\ store = NoStore
    /\ \E state \in 0 .. RandomStates - 1 :
          run = [status |-> "random", state |-> state, evaluations |-> 0,
                 loop_draws |-> 0, last |-> [op |-> "start"]]

NextSeed ==
    \/ EvaluateGene
    \/ LoopDraw
    \/ GameDraw

SpecSeed == InitSeed /\ [][NextSeed]_vars

(***************************************************************************)
(* save_rule called by several threads.  store.file_lock is 0 when the     *)
(* lock is free and the holder's number otherwise; store.threads[t] is the *)
(* position of thread t in save_rule, its argument and its local rules.    *)
(***************************************************************************)
Writers == 2

(* a variant of the lock that lets every thread in *)
can_acquire_always(lock) == TRUE

(* with file_lock: a threading.Lock is acquired only when free *)
can_acquire(lock) == lock = 0

(* with file_lock: entered *)
Acquire ==
    \E t \in 1 .. Writers :
       /\ UNCHANGED << game, panel, gridVars, genome, call, run, discovery >>
       /\ store.threads[t].pc = "called"
       /\ can_acquire(store.file_lock)
       /\ store' = [store EXCEPT !.file_lock = t, !.threads[t].pc = "locked"]

(* the file is looked up, opened and loaded; an exception leaves the with  *)
(* block and releases the lock                                             *)
Load ==
    \E t \in 1 .. Writers :
       /\ UNCHANGED << game, panel, gridVars, genome, call, run, discovery >>
       /\ store.threads[t].pc = "locked"
       /\ \E io \in IoOutcomes :
             LET loaded == load_rules(store.file, io)
             IN  store' = IF loaded.raised /= "none"
                          THEN [store EXCEPT !.file_lock = 0, !.threads[t].pc = loaded.raised]
                          ELSE [store EXCEPT !.threads[t].pc = "loaded",
                                             !.threads[t].rules = loaded.returned[1]]

(* the string is appended and the list written back, unless it is there *)
Store ==
    \E t \in 1 .. Writers :
       /\ UNCHANGED << game, panel, gridVars, genome, call, run, discovery >>
       /\ store.threads[t].pc = "loaded"
       /\ \E io \in IoOutcomes :
             LET stored == store_rules(store.file, store.threads[t].rules,
                                       store.threads[t].rule_str, io)
             IN  store' = IF stored.raised /= "none"
                          THEN [store EXCEPT !.file = stored.file, !.file_lock = 0,
                                             !.threads[t].pc = stored.raised]
                          ELSE [store EXCEPT !.file = stored.file,
                                             !.threads[t].pc = "stored"]

(* the with block is left, save_rule returns *)
Release ==
    \E t \in 1 .. Writers :
       /\ UNCHANGED << game, panel, gridVars, genome, call, run, discovery >>
       /\ store.threads[t].pc = "stored"
       /\ store' = [store EXCEPT !.file_lock = 0, !.threads[t].pc = "returned"]

(* the strings the threads save *)
SavedStrings == {to_bs_string(Rule({0}, {1}), 1), to_bs_string(Rule({1}, {0, 1}), 1)}

(* the file as earlier calls of save_rule can have left it *)
WrittenFiles ==
    {File("absent", << >>), File("corrupt", << >>), File("list", << >>),
     File("list", << to_bs_string(Rule({0}, {1}), 1) >>)}

InitStore ==
    /\ NoGrid
    /\ genome = NoGenome
    /\ call = NoCall
    /\ run = NoRun
    /\ discovery = NoDiscovery
    /\ \E file \in WrittenFiles, rule_strs \in [1 .. Writers -> SavedStrings] :
          store = [status |-> "ready", file |-> file, file_lock |-> 0,
                   threads |-> [t \in 1 .. Writers |->
                                  [pc |-> "called", rule_str |-> rule_strs[t],
                                   rules |-> << >>]]]

NextStore ==
    \/ Acquire
    \/ Load
    \/ Store
    \/ Release

SpecStore == InitStore /\ [][NextStore]_vars

(***************************************************************************)
(* Properties.  They are stated over the arrays before and after the last  *)
(* operation, and count neighbours on the lattice of the grid.             *)
(***************************************************************************)
Stepped == last_op.op = "update"

(* neighbours of species id a cell had before the last operation *)
PreCount(id, cell) == neighbor_counts(topo, pre_grid, id, cell)

(* the lifeform of the grid's list with the given id *)
LifeformOf(id) == lifeforms[CHOOSE i \in 1 .. Len(lifeforms) : lifeforms[i].id = id]

Alive(g) == {cell \in Cells : g[cell] /= 0}

(* C1: after any sequence of grid creation, update and handle_click, every *)
(* cell that holds a species has lifespan >= 1 and every dead cell has     *)
(* lifespan 0.  The long run refutes it: a cell alive for 128 generations  *)
(* holds lifespan -128.                                                    *)
C1_LifespanOfAliveAndDead ==
    \A cell \in Cells :
        /\ grid[cell] /= 0 => grid_lifespans[cell] >= 1
        /\ grid[cell] = 0 => grid_lifespans[cell] = 0

(* the species whose birth rules hold the count a cell had before the step *)
BirthCandidates(g, cell) ==
    {lifeforms[i].id : i \in {j \in 1 .. Len(lifeforms) :
        neighbor_counts(topo, g, lifeforms[j].id, cell) \in lifeforms[j].birth_rules}}

(* C2: in one step a dead cell becomes alive iff some species has the      *)
(* cell's pre-step count in its birth rules; the owner is one of these     *)
(* candidates, with lifespan 1; and from every grid each candidate of each *)
(* dead cell is the owner in some outcome of the step (a cell with one     *)
(* candidate has no other owner, by the first part).                       *)
C2_BirthByCandidates ==
    /\ Stepped =>
          \A cell \in Cells :
             pre_grid[cell] = 0 =>
                /\ grid[cell] /= 0 <=> BirthCandidates(pre_grid, cell) /= {}
                /\ grid[cell] /= 0 =>
                      /\ grid[cell] \in BirthCandidates(pre_grid, cell)
                      /\ grid_lifespans[cell] = 1
    /\ generation < MaxGen =>
          \A cell \in Cells :
             grid[cell] = 0 /\ Cardinality(BirthCandidates(grid, cell)) > 1 =>
                \A id \in BirthCandidates(grid, cell) :
                   ENABLED (StepArrays(MaxGen) /\ grid'[cell] = id)

(* a step gave a cell with two candidates to the candidate listed last *)
C2_Witness ==
    /\ Stepped
    /\ \E cell \in Cells :
          /\ pre_grid[cell] = 0
          /\ BirthCandidates(pre_grid, cell) = {1, 2}
          /\ grid[cell] = 2
          /\ grid_lifespans[cell] = 1

(* C3: in one step a cell alive under species s stays alive under s with   *)
(* lifespan increased by exactly 1 iff its pre-step count of s neighbours  *)
(* is in s.survival; otherwise it is dead with lifespan 0.  The long run   *)
(* refutes the increase: lifespan 127 becomes -128.                        *)
C3_SurvivalKeepsSpecies ==
    Stepped =>
       \A cell \in Cells :
          pre_grid[cell] /= 0 =>
             IF PreCount(pre_grid[cell], cell) \in LifeformOf(pre_grid[cell]).survival_rules
             THEN /\ grid[cell] = pre_grid[cell]
                  /\ grid_lifespans[cell] = pre_lifespans[cell] + 1
             ELSE /\ grid[cell] = 0
                  /\ grid_lifespans[cell] = 0

(* C4: for every step, births minus deaths returned equals alive cells     *)
(* after minus alive cells before, and the returned per-species alive      *)
(* counts sum to at most width * height.                                   *)
C4_Conservation ==
    Stepped =>
       /\ result[1] - result[2] = Cardinality(Alive(grid)) - Cardinality(Alive(pre_grid))
       /\ SumTo(result[4], Len(lifeforms)) <= GridW * GridH

(* a step with births and deaths, of both species *)
C4_Witness ==
    /\ Stepped
    /\ Len(lifeforms) = 2
    /\ result[1] > 0
    /\ result[2] > 1
    /\ \E cell \in Cells : pre_grid[cell] = 1 /\ grid[cell] = 0
    /\ \E cell \in Cells : pre_grid[cell] = 2 /\ grid[cell] = 0

(* cells of another species that died overcrowded in the last step while   *)
(* species id held more than half of all their occupied neighbours         *)
MajorityKills(id) ==
    {cell \in Cells :
        /\ pre_grid[cell] /= 0
        /\ pre_grid[cell] /= id
        /\ PreCount(pre_grid[cell], cell) \notin LifeformOf(pre_grid[cell]).survival_rules
        /\ PreCount(pre_grid[cell], cell) > SetMax(LifeformOf(pre_grid[cell]).survival_rules)
        /\ 2 * PreCount(id, cell) >
              SumTo([i \in 1 .. Len(lifeforms) |-> PreCount(lifeforms[i].id, cell)],
                    Len(lifeforms))}

(* the kills the last step's result attributes to species id *)
KillsAttributed(id) == IF Len(result) >= 7 THEN result[7][id] ELSE 0

(* C5: a death of species A with own count above max(A.survival) is        *)
(* attributed to species B iff B's count at the cell is more than half of  *)
(* the total occupancy (A included); no other death is attributed.  The    *)
(* square grid's step attributes nothing, which refutes it.                *)
C5_KillAttribution ==
    Stepped =>
       \A id \in lifeform_ids(lifeforms) :
          KillsAttributed(id) = Cardinality(MajorityKills(id))

(* C5 on the lattices whose step computes the attribution *)
C5_OnNumpyGrids == topo.shape /= "square" => C5_KillAttribution

(* a step on a hexagon or triangle grid attributed a kill *)
C5_NumpyKillReached ==
    /\ Stepped
    /\ topo.shape /= "square"
    /\ \E id \in lifeform_ids(lifeforms) :
          KillsAttributed(id) > 0 /\ MajorityKills(id) /= {}

(* C6: on every lattice kind one step returns the full result, kill counts *)
(* and changed cells included, and the tick that unpacks it completes.     *)
(* The square grid's step returns six values, which refutes it.            *)
C6_TickCompletes ==
    /\ Stepped => Len(result) = 8
    /\ game.status /= "ValueError"

(* C7: encoding and decoding are mutually inverse for every N: a gene of   *)
(* length 2(N+1) decoded and encoded again is the same gene, the all-zero  *)
(* gene decodes to two empty sets, and a rule with all values in 0..N      *)
(* encoded and decoded again is the same rule.                             *)
C7_GenomeRoundTrip ==
    /\ genome.op = "gene_to_rule" =>
          /\ genome.back = genome.gene
          /\ (\A k \in 1 .. Len(genome.gene) : genome.gene[k] = "0") =>
                genome.rule = Rule({}, {})
    /\ (/\ genome.op = "rule_to_gene"
        /\ genome.rule.birth \cup genome.rule.survive \subseteq 0 .. genome.N) =>
          /\ genome.back = genome.rule
          /\ Len(genome.gene) = 2 * (genome.N + 1)

(* an in-range rule for N = 1 with a survive value went through the round  *)
(* trip                                                                    *)
C7_Witness ==
    /\ genome.op = "rule_to_gene"
    /\ genome.N = 1
    /\ genome.rule = Rule({1}, {0, 1})
    /\ genome.gene = << "0", "1", "1", "1" >>
    /\ genome.back = genome.rule

(* the values of a rule string that lie in 0 .. max_n *)
InRange(rules_str, max_n) == {v \in parse_rules(rules_str).rules : 0 <= v /\ v <= max_n}

(* C8: applying rule values to a species drops exactly the values outside  *)
(* 0..max_neighbors of the current lattice and keeps every value inside    *)
(* (hexagon '2,6,8' gives [2, 6]).  apply_ruleset_to_lifeform stores the   *)
(* values as parsed, which refutes it.                                     *)
C8_ApplyDropsOutOfRange ==
    last_op.op = "apply" =>
       LET max_n == get_max_neighbors(game.shape, game.triangle_mode).returned[1]
           lf == game.lifeforms[last_op.lifeform_index + 1]
       IN  /\ lf.birth_rules = InRange(last_op.birth_rules_str, max_n)
           /\ lf.survival_rules = InRange(last_op.survival_rules_str, max_n)

(* the case of the claim: '2,6,8' applied on the hexagon lattice is kept   *)
(* whole                                                                   *)
C8_HexagonKeeps8 ==
    /\ last_op.op = "apply"
    /\ game.shape = "hexagon"
    /\ last_op.birth_rules_str = << "2", "6", "8" >>
    /\ lifeforms[1].birth_rules = {2, 6, 8}

(* C9: after any sequence of shape changes, mode changes, randomise, rule  *)
(* application and reset, the rules of every active species lie in         *)
(* 0..max_neighbors(shape, mode) when a grid is created with them.  A      *)
(* shape change creates the grid with the rules of the old shape, which    *)
(* refutes it.                                                             *)
C9_RulesInRangeAtCreate ==
    last_op.op \in {"create", "select", "reset", "randomise", "apply"} =>
       \A i \in 1 .. Len(lifeforms) :
          lifeforms[i].birth_rules \cup lifeforms[i].survival_rules
             \subseteq 0 .. get_max_neighbors(game.shape, game.triangle_mode).returned[1]

(* a shape change alone (no rule application before it) created a grid     *)
(* with a value above max_neighbors                                        *)
C9_StaleAfterSelect ==
    /\ last_op.op = "select"
    /\ \E i \in 1 .. Len(lifeforms) :
          \E v \in lifeforms[i].birth_rules \cup lifeforms[i].survival_rules :
             v > get_max_neighbors(game.shape, game.triangle_mode).returned[1]
    /\ \A i \in 1 .. NumLifeforms :
          game.lifeforms[i].birth_rules \cup game.lifeforms[i].survival_rules \subseteq 0 .. 8

(* C10: for every lattice kind and triangle mode, randomise_lifeforms      *)
(* gives ten species with ids 1..10, non-empty birth and survival sets,    *)
(* and all values in 0..max_neighbors(shape, mode).                        *)
C10_RandomiseInRange ==
    last_op.op = "randomise" =>
       LET max_n == get_max_neighbors(game.shape, game.triangle_mode).returned[1]
       IN  /\ Len(game.lifeforms) = NumLifeforms
           /\ \A i \in 1 .. Len(game.lifeforms) :
                 /\ game.lifeforms[i].id = i
                 /\ game.lifeforms[i].birth_rules /= {}
                 /\ game.lifeforms[i].survival_rules /= {}
                 /\ game.lifeforms[i].birth_rules \cup game.lifeforms[i].survival_rules
                       \subseteq 0 .. max_n

(* randomise on the triangle lattice in edge mode drew both ends of the    *)
(* range, 0 and 3                                                          *)
C10_Witness ==
    /\ last_op.op = "randomise"
    /\ game.shape = "triangle"
    /\ game.triangle_mode = "edge"
    /\ \E i \in 1 .. NumLifeforms : 0 \in game.lifeforms[i].birth_rules
    /\ \E i \in 1 .. NumLifeforms : 3 \in game.lifeforms[i].survival_rules


(***************************************************************************)
(* Topology and construction.                                              *)
(***************************************************************************)
(* the offsets of a cell that stay inside the grid *)
InBounds(cell) ==
    {o \in cell_offsets(topo, cell[1], cell[2]) :
        /\ cell[1] + o[1] \in 0 .. GridH - 1
        /\ cell[2] + o[2] \in 0 .. GridW - 1}

(* C11: the neighbour counts of every lattice kind, Square included,       *)
(* honour the wrap flag the grid was asked for: with wrap = false a cell   *)
(* counts only the neighbours inside the grid, out-of-bounds neighbours    *)
(* are omitted and never taken from the opposite edge                      *)
C11_WrapFlagHonoured ==
    ~topo.wrap =>
        \A cell \in Cells : \A id \in lifeform_ids(lifeforms) :
            neighbor_counts(topo, grid, id, cell) =
                Cardinality({o \in InBounds(cell) : grid[neighbor_cell(cell, o)] = id})

(* on the numpy hexagon and triangle grids the flag is honoured *)
C11_OnNumpyGrids == topo.shape /= "square" => C11_WrapFlagHonoured

(* a hexagon or triangle grid without wrap whose corner cell has a live    *)
(* cell on the opposite edge that it does not count                        *)
C11_NumpyEdgeReached ==
    /\ topo.shape /= "square"
    /\ ~topo.wrap
    /\ grid[<<0, 0>>] = 0
    /\ grid[<<0, GridW - 1>>] = 1
    /\ neighbor_counts(topo, grid, 1, <<0, 0>>) = 0

(* the number of neighbour entries of a cell *)
Degree(cell) == Cardinality(neighbor_offsets(topo, cell))

(* C12: on a grid built with wrap = true every cell, interior or boundary, *)
(* has exactly the fixed degree of its lattice, which is max_neighbors     *)
(* (Square 8, Hexagon 6, Triangle 12 for edge+vertex and 3 for edge); on   *)
(* Triangle the upward and the downward class have equal degree in each    *)
(* mode, and the edge+vertex degree is at least the edge degree            *)
C12_FixedDegree ==
    /\ topo.wrap =>
          \A cell \in Cells :
             Degree(cell) = get_max_neighbors(topo.shape, topo.mode).returned[1]
    /\ topo.shape = "triangle" =>
          /\ Cardinality(offsets_up(topo.mode)) = Cardinality(offsets_down(topo.mode))
          /\ \A cell \in Cells :
                /\ Cardinality(cell_offsets([topo EXCEPT !.mode = "edge+vertex"],
                                            cell[1], cell[2]))
                      >= Cardinality(cell_offsets(topo, cell[1], cell[2]))
                /\ Cardinality(cell_offsets([topo EXCEPT !.mode = "edge"],
                                            cell[1], cell[2]))
                      <= Cardinality(cell_offsets(topo, cell[1], cell[2]))

(* a wrapped edge+vertex triangle grid has been stepped, and an upward     *)
(* corner cell and a downward cell both have twelve neighbour entries      *)
C12_Witness ==
    /\ Stepped
    /\ topo = [shape |-> "triangle", mode |-> "edge+vertex", wrap |-> TRUE]
    /\ Degree(<<0, 0>>) = 12
    /\ Degree(<<0, 1>>) = 12
    /\ get_max_neighbors(topo.shape, topo.mode).returned = << 12 >>

(* C13: max_neighbors returns 8 for Square, 6 for Hexagon, 12 for Triangle *)
(* in edge+vertex mode and 3 for Triangle in edge mode, and for a lattice  *)
(* name it does not recognise it fails with a configuration error and      *)
(* returns nothing, never a default degree                                 *)
C13_MaxNeighbors ==
    call.op = "get_max_neighbors" =>
        /\ call.grid_shape \in {"square", "Square"} => call.outcome = Returns(8)
        /\ call.grid_shape \in {"hexagon", "HEXAGON"} => call.outcome = Returns(6)
        /\ (call.grid_shape = "triangle" /\ call.triangle_mode = "edge+vertex") =>
              call.outcome = Returns(12)
        /\ (call.grid_shape = "triangle" /\ call.triangle_mode = "edge") =>
              call.outcome = Returns(3)
        /\ call.grid_shape = "octagon" =>
              /\ call.outcome.raised = "ValueError"
              /\ call.outcome.returned = << >>

(* the call with an unknown lattice name has been made and has raised *)
C13_Witness ==
    /\ call.op = "get_max_neighbors"
    /\ call.grid_shape = "octagon"
    /\ call.triangle_mode = "edge+vertex"
    /\ call.outcome = Raises("ValueError")

(* C14: building a grid fails with a configuration error when the lattice  *)
(* is Triangle and the mode is not one of the two recognised values, and   *)
(* also when width * height = 0; neither is silently defaulted             *)
C14_BuildFails ==
    call.op = "create_grid" =>
        /\ (call.shape = "triangle"
            /\ call.triangle_neighborhood_mode \notin {"edge", "edge+vertex", "Edge"}) =>
              call.outcome = Raises("ValueError")
        /\ call.grid_width * call.grid_height = 0 =>
              call.outcome = Raises("ValueError")

(* the part of C14 on the triangle mode alone *)
C14_BadModeFails ==
    (/\ call.op = "create_grid"
     /\ call.shape = "triangle"
     /\ call.triangle_neighborhood_mode \notin {"edge", "edge+vertex", "Edge"}) =>
        call.outcome = Raises("ValueError")

(* a triangle grid with an unrecognised mode has been asked for *)
C14_BadModeReached ==
    /\ call.op = "create_grid"
    /\ call.shape = "triangle"
    /\ call.triangle_neighborhood_mode = "corner"
    /\ call.grid_width * call.grid_height > 0
    /\ call.outcome = Raises("ValueError")

(***************************************************************************)
(* Seeding and clicks.                                                     *)
(***************************************************************************)
Created == last_op.op = "create"

(* round(n / d), halves to the even neighbour *)
Round(n, d) ==
    LET q == n \div d
        r == n % d
    IN  IF 2 * r < d THEN q
        ELSE IF 2 * r > d THEN q + 1
        ELSE IF q % 2 = 0 THEN q ELSE q + 1

(* what seeding leaves apart from the number of live cells: every live     *)
(* cell has lifespan 1 and a species id of the active list (id 1 when the  *)
(* list is empty, as in a single-species session), every other cell is     *)
(* dead with lifespan 0                                                    *)
SeededCells ==
    \A cell \in Cells :
        IF grid[cell] /= 0
        THEN /\ grid_lifespans[cell] = 1
             /\ grid[cell] \in (IF lifeforms = << >> THEN {1} ELSE lifeform_ids(lifeforms))
             /\ Len(lifeforms) <= 1 => grid[cell] = 1
        ELSE grid_lifespans[cell] = 0

(* C15 as stated: seeding leaves exactly round(width * height * f)        *)
(* distinct cells alive, each with lifespan 1 and a species id of the      *)
(* active list (id 1 in a single-species session), all others dead with    *)
(* lifespan 0                                                              *)
C15_SeedRound ==
    Created =>
        /\ Cardinality(Alive(grid))
              = Round(GridW * GridH * last_op.initial_alive_percentage, 100)
        /\ SeededCells

(* C15 amended: seeding leaves exactly floor(width * height * f) distinct  *)
(* cells alive, each with lifespan 1 and a species id of the active list   *)
(* (id 1 in a single-species session), all others dead with lifespan 0     *)
C15_SeedFloor ==
    Created =>
        /\ 100 * Cardinality(Alive(grid))
              <= GridW * GridH * last_op.initial_alive_percentage
        /\ 100 * (Cardinality(Alive(grid)) + 1)
              > GridW * GridH * last_op.initial_alive_percentage
        /\ SeededCells

(* a grid of two species seeded at 25 percent: one of the six cells is     *)
(* alive, and it belongs to the second species                             *)
C15_Witness ==
    /\ Created
    /\ last_op.initial_alive_percentage = 25
    /\ Len(lifeforms) = 2
    /\ Cardinality(Alive(grid)) = 1
    /\ \E cell \in Cells : grid[cell] = 2 /\ grid_lifespans[cell] = 1

(* the number of cells a species owns *)
Owned(id) == Cardinality({cell \in Cells : grid[cell] = id})

(* C16: seeding partitions the initial live cells evenly across the active *)
(* species (no two species differ by more than one cell), and every active *)
(* species owns at least one cell when there are at least as many seeded   *)
(* cells as active species                                                 *)
C16_EvenPartition ==
    Created =>
        /\ \A i, j \in lifeform_ids(lifeforms) : Owned(i) <= Owned(j) + 1
        /\ Cardinality(Alive(grid)) >= Len(lifeforms) =>
              \A id \in lifeform_ids(lifeforms) : Owned(id) >= 1

(* three seeded cells for two species, all three of the first species *)
C16_OneSpeciesTakesAll ==
    /\ Created
    /\ Len(lifeforms) = 2
    /\ Owned(1) = 3
    /\ Owned(2) = 0

(* C17: toggling a cell changes that cell only: a dead cell becomes alive  *)
(* with lifespan 1 and a species of the active list (id 1 if the list is   *)
(* empty), a live cell becomes dead with lifespan 0; every other cell and  *)
(* the generation counter stay as they were                                *)
C17_ToggleOneCell ==
    [][clicks' = clicks + 1 =>
          /\ generation' = generation
          /\ \E cell \in Cells :
                /\ \A other \in Cells \ {cell} :
                      /\ grid'[other] = grid[other]
                      /\ grid_lifespans'[other] = grid_lifespans[other]
                /\ IF grid[cell] = 0
                   THEN /\ grid'[cell] \in (IF lifeforms = << >> THEN {1}
                                             ELSE lifeform_ids(lifeforms))
                        /\ grid_lifespans'[cell] = 1
                   ELSE /\ grid'[cell] = 0
                        /\ grid_lifespans'[cell] = 0]_vars

(* a grid without a lifeform list has been stepped and then clicked on a   *)
(* dead cell, which is now alive with id 1                                 *)
C17_Witness ==
    /\ last_op.op = "click"
    /\ lifeforms = << >>
    /\ generation = 1
    /\ \E cell \in Cells :
          /\ pre_grid[cell] = 0
          /\ grid[cell] = 1
          /\ grid_lifespans[cell] = 1
          /\ \A other \in Cells \ {cell} : grid[other] = pre_grid[other]

(***************************************************************************)
(* run_timeseries.                                                         *)
(***************************************************************************)
Running == run.status \in {"running", "done"}

(* C18: within one run, once frozen_at has been set it keeps its value on  *)
(* every later step of the run, also when activity rises above epsilon     *)
(* afterwards and a new quiet streak of freeze_window steps completes      *)
C18_FirstFreezeWins ==
    [][(Running /\ run.frozen_at /= << >>) => run'.frozen_at = run.frozen_at]_vars

(* frozen_at was set, activity rose above epsilon afterwards, and a later  *)
(* quiet streak has reached freeze_window again                            *)
C18_Witness ==
    /\ Running
    /\ run.frozen_at /= << >>
    /\ run.quiet_streak >= run.freeze_window
    /\ \E t \in 1 .. Len(run.activity) :
          /\ t - 1 > run.frozen_at[1]
          /\ run.activity[t] > run.epsilon

(* step t of the recorded series is quiet: it has an activity (t > 0), it  *)
(* is not before burn_in, and its activity |rho[t] - rho[t-1]| is at most  *)
(* epsilon; the series is indexed from 0, the sequence run.rho from 1      *)
Quiet(t) ==
    /\ t >= 1
    /\ t >= run.burn_in
    /\ abs(run.rho[t + 1] - run.rho[t]) <= run.epsilon

(* the number of consecutive quiet steps that end at step t *)
Streak(t) == SetMax({k \in 0 .. t : \A j \in (t - k + 1) .. t : Quiet(j)})

(* the steps recorded so far at which the streak has reached freeze_window *)
FreezePoints == {t \in 0 .. Len(run.rho) - 1 : Streak(t) >= run.freeze_window}

(* C19: burn_in is floor(steps * burn_in_frac), and frozen_at is the first *)
(* step t >= burn_in at which the count of consecutive steps with activity *)
(* <= epsilon, all at index >= burn_in, reaches freeze_window: steps       *)
(* before burn_in never count, a step with activity > epsilon resets the   *)
(* streak to 0, frozen_at is unset while no such step exists, and when set *)
(* it is at least burn_in + freeze_window - 1.  Activity is defined for    *)
(* t > 0, so the seeded state at index 0 is not a quiet step.              *)
C19_FreezeDetection ==
    Running =>
        /\ 100 * run.burn_in <= run.steps * run.burn_in_frac
        /\ 100 * (run.burn_in + 1) > run.steps * run.burn_in_frac
        /\ run.frozen_at = (IF FreezePoints = {} THEN << >>
                            ELSE << SetMin(FreezePoints) >>)
        /\ Len(run.rho) > 0 => run.quiet_streak = Streak(Len(run.rho) - 1)
        /\ run.frozen_at /= << >> =>
              /\ run.frozen_at[1] >= run.burn_in + run.freeze_window - 1
              /\ run.frozen_at[1] < run.steps

(* a run of five steps with burn_in 2 and freeze_window 2: step 1 was      *)
(* quiet but came before burn_in, and the freeze is found at step 3        *)
C19_Witness ==
    /\ run.status = "done"
    /\ run.steps = 5
    /\ run.burn_in = 2
    /\ run.freeze_window = 2
    /\ run.activity[2] <= run.epsilon
    /\ run.frozen_at = << 3 >>

(* C20 as stated: a run with horizon steps applies the grid's step         *)
(* operation exactly steps times, the seeded state being generation 0      *)
C20_StepsTimes ==
    run.status = "done" => generation = run.steps

(* C20 amended: a run with horizon steps records steps samples and applies *)
(* the grid's step operation exactly steps - 1 times (not at all when      *)
(* steps is 0): the seeded state is generation 0 and is recorded as the    *)
(* first sample without a step being applied                               *)
C20_StepsMinusOne ==
    Running =>
        /\ Len(run.rho) = run.step
        /\ generation = (IF run.step = 0 THEN 0 ELSE run.step - 1)
        /\ run.step = 1 =>
              run.rho[1] = Cardinality({cell \in Cells : grid[cell] = run.lifeform_id})
        /\ run.status = "done" => run.step = run.steps

(* a run of three steps has returned: three samples, two generations *)
C20_Witness ==
    /\ run.status = "done"
    /\ run.steps = 3
    /\ Len(run.rho) = 3
    /\ generation = 2
    /\ run.rho[1] /= run.rho[3]

(***************************************************************************)
(* run_damage_spreading and repeated runs.                                 *)
(***************************************************************************)
Damage == run.status \in {"running", "done"} /\ run.op = "damage"

(* C21: with flip_cells = 0 every recorded H[t] is 0: the two grids, equal *)
(* in cells and lifespans and stepped in lockstep under the same single    *)
(* lifeform, have identical cells after every step                         *)
C21_NoFlipNoDamage ==
    (Damage /\ run.flip_cells = 0) =>
        /\ \A t \in 1 .. Len(run.H) : run.H[t] = 0
        /\ grid = run.grid_b
        /\ grid_lifespans = run.lifespans_b

(* a run without flips has returned after two steps that changed the grid *)
C21_Witness ==
    /\ run.status = "done"
    /\ run.op = "damage"
    /\ run.flip_cells = 0
    /\ generation = 2
    /\ Len(run.H) = 3
    /\ grid /= run.grid_a0
    /\ grid /= pre_grid
    /\ Alive(grid) /= {}

(* the cells in which the two copies differ after the perturbation *)
Flipped == {cell \in Cells : run.grid_b0[cell] /= run.grid_a0[cell]}

(* C22: the perturbation toggles exactly min(flip_cells, total_cells)      *)
(* distinct cells, in the second copy only: a dead cell becomes alive with *)
(* the fixed lifeform id and lifespan 1, a live cell dead with lifespan 0; *)
(* the first copy stays as make_grid seeded it, so H[0] is                 *)
(* min(flip_cells, total_cells) / total_cells                              *)
C22_PerturbSecondCopy ==
    (run.status /= "none" /\ run.op = "damage") =>
        /\ Cardinality(Flipped) = Min(run.flip_cells, GridW * GridH)
        /\ \A cell \in Cells :
              IF cell \in Flipped
              THEN IF run.grid_a0[cell] = 0
                   THEN run.grid_b0[cell] = lifeforms[1].id /\ run.lifespans_b0[cell] = 1
                   ELSE run.grid_b0[cell] = 0 /\ run.lifespans_b0[cell] = 0
              ELSE run.lifespans_b0[cell] = run.lifespans_a0[cell]
        /\ 100 * Cardinality(Alive(run.grid_a0))
              <= GridW * GridH * run.initial_alive_percentage
        /\ 100 * (Cardinality(Alive(run.grid_a0)) + 1)
              > GridW * GridH * run.initial_alive_percentage
        /\ \A cell \in Cells :
              run.lifespans_a0[cell] = (IF run.grid_a0[cell] = 0 THEN 0 ELSE 1)
        /\ generation = 0 => (grid = run.grid_a0 /\ grid_lifespans = run.lifespans_a0)
        /\ run.status /= "IndexError" => run.H[1] = Min(run.flip_cells, GridW * GridH)

(* more flips asked for than the grid has cells: every cell is toggled *)
C22_Witness ==
    /\ run.status = "done"
    /\ run.op = "damage"
    /\ run.flip_cells = GridW * GridH + 1
    /\ Flipped = Cells
    /\ run.H[1] = GridW * GridH
    /\ \E cell \in Cells : run.grid_a0[cell] /= 0 /\ run.grid_b0[cell] = 0

(* C23: two runs that make a grid with the same seed, lattice, dimensions, *)
(* density and rule, and then apply the same number of steps, have the     *)
(* same cells, generation counter and population counts at every           *)
(* generation                                                              *)
C23_SameSeedSameRun ==
    (run.status /= "none" /\ run.op = "pair"
       /\ run.seed_a /= << >> /\ run.seed_a = run.seed_b) =>
        /\ grid = run.grid_b
        /\ grid_lifespans = run.lifespans_b
        /\ generation = run.generation_b
        /\ run.population_a = run.population_b

(* two runs with the same seed have taken two steps, the population has    *)
(* changed on the way and is not extinct                                   *)
C23_Witness ==
    /\ run.status /= "none"
    /\ run.op = "pair"
    /\ run.seed_a = << 4 >>
    /\ run.seed_b = << 4 >>
    /\ generation = 2
    /\ Len(run.population_a) = 3
    /\ run.population_a[1] /= run.population_a[2]
    /\ run.population_a[3] > 0

(* the number of positions in which two genes of one length differ *)
Hamming(a, b) == Cardinality({k \in 1 .. Len(a) : a[k] /= b[k]})

(* C24: mutate with k flips returns a genome of the same length whose      *)
(* Hamming distance from the input is at most k and has the parity of k    *)
(* (a position drawn twice cancels); with k = 0 the genome is returned     *)
(* as it is, with k = 1 exactly one bit differs                            *)
C24_MutateDistance ==
    genome.op = "mutate" =>
        LET k == Len(genome.draws)
            d == Hamming(genome.gene, genome.mutated)
        IN  /\ Len(genome.mutated) = Len(genome.gene)
            /\ \A i \in 1 .. Len(genome.mutated) : genome.mutated[i] \in {"0", "1"}
            /\ d <= k
            /\ d % 2 = k % 2
            /\ k = 0 => genome.mutated = genome.gene
            /\ k = 1 => d = 1

(* three flips of which two hit the same position: one bit differs *)
C24_Witness ==
    /\ genome.op = "mutate"
    /\ genome.N = 2
    /\ genome.draws = << 4, 1, 4 >>
    /\ genome.gene = << "0", "1", "1", "0", "1", "0" >>
    /\ genome.mutated = << "0", "0", "1", "0", "1", "0" >>

Scored == call.op = "score_timeseries"

(* C25: score_timeseries returns a value in [0, 1] for every input (any    *)
(* rho and activity, any frozen_at, any steps, H given or not, series      *)
(* shorter than the burn-in index included), and exactly 0 when rho or     *)
(* activity is empty                                                       *)
C25_ScoreInRange ==
    Scored =>
        /\ call.result.raised = "none"
        /\ 0 <= call.result.returned[1]
        /\ call.result.returned[1] <= 1000
        /\ (call.rho = << >> \/ call.activity = << >>) => call.result.returned[1] = 0

(* C25, for the calls that return: the value returned lies in [0, 1], and  *)
(* for steps of at least 1 every call returns                              *)
C25_InRangeWhenReturned ==
    Scored =>
        /\ call.steps >= 1 => call.result.raised = "none"
        /\ call.result.raised = "none" =>
              /\ 0 <= call.result.returned[1]
              /\ call.result.returned[1] <= 1000
              /\ (call.rho = << >> \/ call.activity = << >>) =>
                    call.result.returned[1] = 0

(* steps = 0 with an empty H: H[-1] raises IndexError *)
C25_IndexErrorReached ==
    /\ Scored
    /\ call.steps = 0
    /\ call.rho = << 300 >>
    /\ call.activity = << 30 >>
    /\ call.frozen_at = << >>
    /\ call.H = << << >> >>
    /\ call.result = Raises("IndexError")

(***************************************************************************)
(* The discovery loop and its store.                                       *)
(***************************************************************************)
(* the evaluation loop takes its next genome in this step *)
Evaluating ==
    /\ discovery.status = "evaluating"
    /\ discovery.i <= Len(discovery.population)
    /\ discovery'.i = discovery.i + 1

(* the half of a gene from position lo to hi holds no '1' *)
NoBit(gene, lo, hi) == \A k \in lo .. hi : gene[k] = "0"

EmptyRule(gene, N) == NoBit(gene, 1, N + 1) \/ NoBit(gene, N + 2, 2 * (N + 1))

(* C26: the evaluation of a genome whose birth set or survival set is      *)
(* empty gives fitness exactly 0 without a grid being built or a step      *)
(* being run, raises nothing, leaves the loop running with the next        *)
(* genome, and leaves the store as it was                                  *)
C26_InvalidRuleScoresZero ==
    [][(Evaluating /\ EmptyRule(discovery.population[discovery.i], discovery.N)) =>
          /\ discovery'.last.sim = [score |-> 0, grid_made |-> FALSE, steps |-> 0]
          /\ discovery'.evaluated_population[discovery.i] =
                [gene |-> discovery.population[discovery.i], score |-> 0]
          /\ discovery'.status = "evaluating"
          /\ discovery'.population = discovery.population
          /\ store' = store]_vars

(* a genome without survival rules scored 0 and the genome after it was    *)
(* evaluated and scored 0.9                                                *)
C26_Witness ==
    /\ discovery.status = "evaluating"
    /\ discovery.N = 1
    /\ discovery.i = 3
    /\ discovery.evaluated_population[1] = [gene |-> << "0", "1", "0", "0" >>, score |-> 0]
    /\ discovery.evaluated_population[2].score = 900
    /\ store.file = File("list", << format_rule_string(discovery.population[2], 1) >>)

NoDuplicates(rules) ==
    \A a \in 1 .. Len(rules) : \A b \in 1 .. Len(rules) : rules[a] = rules[b] => a = b

IsPrefix(old, new) ==
    /\ Len(old) <= Len(new)
    /\ \A k \in 1 .. Len(old) : new[k] = old[k]

(* C27: the store is append-only and duplicate-free: only a genome that    *)
(* scored above 0.8 is saved, and after a save the list holds no string    *)
(* twice and every entry the store held before is still at its position,   *)
(* whatever the file held before                                           *)
C27_AppendOnlyNoDuplicates ==
    [][Evaluating =>
          /\ store'.file /= store.file => discovery'.last.sim.score > 800
          /\ discovery'.last.saves =>
                /\ NoDuplicates(store'.file.rules)
                /\ IsPrefix(store.file.rules, store'.file.rules)]_vars

(* a list that held a string twice has been appended to, and still holds   *)
(* the string twice                                                        *)
C27_DuplicateKept ==
    /\ discovery.status = "evaluating"
    /\ discovery.last.op = "evaluate"
    /\ discovery.last.saves
    /\ store.file.kind = "list"
    /\ Len(store.file.rules) = 4
    /\ store.file.rules[1] = store.file.rules[3]

(* C29: an I/O failure while save_rule reads or writes the store does not  *)
(* end the discovery loop                                                  *)
C29_LoopSurvivesIoFailure == discovery.status /= "OSError"

(* a failed json.dump has ended discover_rules with genomes of the         *)
(* generation unevaluated and the file truncated                           *)
C29_LoopEnded ==
    /\ discovery.status = "OSError"
    /\ discovery.i <= Len(discovery.population)
    /\ discovery.last.saves
    /\ store.file.kind = "corrupt"

(* C30: at the start of every evaluation phase the population holds        *)
(* exactly POPULATION_SIZE genomes, each of length 2(N+1); after breeding  *)
(* it consists of the NUM_PARENTS highest-scoring genomes of the evaluated *)
(* generation, unchanged and in descending order of score, followed by     *)
(* children that each are mutate (MUTATION_RATE flips) of one of them      *)
C30_NextPopulation ==
    /\ (discovery.status = "evaluating" /\ discovery.i = 1) =>
          /\ Len(discovery.population) = POPULATION_SIZE
          /\ \A k \in 1 .. POPULATION_SIZE :
                Len(discovery.population[k]) = 2 * (discovery.N + 1)
    /\ (discovery.status = "evaluating" /\ discovery.last.op = "breed") =>
          LET evaluated == discovery.last.evaluated_population
              next_population == discovery.population
          IN  /\ \E from \in [1 .. NUM_PARENTS -> 1 .. Len(evaluated)] :
                    /\ \A a \in 1 .. NUM_PARENTS : \A b \in 1 .. NUM_PARENTS :
                          from[a] = from[b] => a = b
                    /\ \A a \in 1 .. NUM_PARENTS :
                          next_population[a] = evaluated[from[a]].gene
                    /\ \A a \in 1 .. NUM_PARENTS - 1 :
                          evaluated[from[a]].score >= evaluated[from[a + 1]].score
                    /\ \A j \in 1 .. Len(evaluated) :
                          (\A a \in 1 .. NUM_PARENTS : from[a] /= j) =>
                             \A a \in 1 .. NUM_PARENTS :
                                evaluated[j].score <= evaluated[from[a]].score
              /\ \A c \in NUM_PARENTS + 1 .. POPULATION_SIZE :
                    \E a \in 1 .. NUM_PARENTS :
                       LET d == Hamming(next_population[a], next_population[c])
                       IN  d <= MUTATION_RATE /\ d % 2 = MUTATION_RATE % 2

(* the third genome scored highest and the second lowest: the next         *)
(* population starts with the third and the first                          *)
C30_Witness ==
    /\ discovery.status = "evaluating"
    /\ discovery.last.op = "breed"
    /\ discovery.generation_count = 2
    /\ discovery.last.evaluated_population[1].score = 500
    /\ discovery.last.evaluated_population[2].score = 0
    /\ discovery.last.evaluated_population[3].score = 900
    /\ discovery.population[1] = discovery.last.evaluated_population[3].gene
    /\ discovery.population[2] = discovery.last.evaluated_population[1].gene
    /\ discovery.population[1] /= discovery.population[2]

(* the threads inside the with block of save_rule *)
InCriticalSection ==
    {t \in 1 .. Writers : store.threads[t].pc \in {"locked", "loaded", "stored"}}

Occurrences(rules, rule_str) ==
    Cardinality({k \in 1 .. Len(rules) : rules[k] = rule_str})

(* C28: under every interleaving of concurrent save_rule calls at most one *)
(* thread at a time is inside the read-modify-write of the list, and once  *)
(* all calls have returned the store holds every saved string exactly once *)
C28_SerialisedSaves ==
    store.status = "ready" =>
        /\ Cardinality(InCriticalSection) <= 1
        /\ \A t \in InCriticalSection : store.file_lock = t
        /\ (\A t \in 1 .. Writers : store.threads[t].pc = "returned") =>
              /\ store.file.kind = "list"
              /\ \A t \in 1 .. Writers :
                    Occurrences(store.file.rules, store.threads[t].rule_str) = 1

(* two threads have saved different strings to a file that was absent or   *)
(* unreadable: both strings are in the list                                *)
C28_Witness ==
    /\ store.status = "ready"
    /\ \A t \in 1 .. Writers : store.threads[t].pc = "returned"
    /\ store.threads[1].rule_str /= store.threads[2].rule_str
    /\ store.threads[1].rules = << >>
    /\ store.threads[2].rules = << store.threads[1].rule_str >>
    /\ store.file = File("list", << store.threads[1].rule_str, store.threads[2].rule_str >>)

(***************************************************************************)
(* Steps under rules with an empty birth or survival set.                  *)
(***************************************************************************)
Stepping == last_op'.op = "update"

NoBirthRules == \A i \in 1 .. Len(lifeforms) : lifeforms[i].birth_rules = {}

(* C31: if every active species has an empty birth set no step produces a  *)
(* birth: no step raises the alive population, no dead cell comes alive,   *)
(* and from population 0 a step leads to population 0, whatever the        *)
(* survival sets are                                                       *)
C31_NoBirthNoGrowth ==
    [][(Stepping /\ NoBirthRules) =>
          /\ result'[1] = 0
          /\ \A cell \in Cells : grid[cell] = 0 => grid'[cell] = 0
          /\ Cardinality(Alive(grid')) <= Cardinality(Alive(grid))
          /\ Alive(grid) = {} => Alive(grid') = {}]_vars

(* two species without birth rules: two steps have been taken and a cell   *)
(* has survived both                                                       *)
C31_Witness ==
    /\ last_op.op = "update"
    /\ generation = 2
    /\ Len(lifeforms) = 2
    /\ NoBirthRules
    /\ \E cell \in Cells : grid[cell] /= 0 /\ grid_lifespans[cell] = 3

(* the species without survival rules *)
NoSurvivalIds ==
    {lifeforms[i].id : i \in {j \in 1 .. Len(lifeforms) : lifeforms[j].survival_rules = {}}}

(* all occupied neighbours a cell had before the last operation *)
PreTotal(cell) ==
    SumTo([i \in 1 .. Len(lifeforms) |-> PreCount(lifeforms[i].id, cell)], Len(lifeforms))

(* cells of a species without survival rules that were alive before the    *)
(* last step while species id held more than half of their occupied        *)
(* neighbours                                                              *)
OutnumberedBy(id) ==
    {cell \in Cells :
        /\ pre_grid[cell] \in NoSurvivalIds
        /\ pre_grid[cell] /= id
        /\ 2 * PreCount(id, cell) > PreTotal(cell)}

(* cells of a species with survival rules that died in the last step with  *)
(* more own neighbours than its largest survival count while species id    *)
(* held more than half of their occupied neighbours                        *)
CrowdedOutBy(id) ==
    {cell \in Cells :
        /\ pre_grid[cell] /= 0
        /\ pre_grid[cell] \notin NoSurvivalIds
        /\ pre_grid[cell] /= id
        /\ \A sv \in LifeformOf(pre_grid[cell]).survival_rules :
              PreCount(pre_grid[cell], cell) > sv
        /\ 2 * PreCount(id, cell) > PreTotal(cell)}

OwnedByActive == \A cell \in Cells : pre_grid[cell] \in {0} \cup lifeform_ids(lifeforms)

KilledBy(id) ==
    {cell \in Cells :
        /\ pre_grid[cell] \in lifeform_ids(lifeforms) \ {id}
        /\ \A sv \in LifeformOf(pre_grid[cell]).survival_rules :
              PreCount(pre_grid[cell], cell) > sv
        /\ 2 * PreCount(id, cell) > PreTotal(cell)}

(* C34: a step is synchronous: the births, survivals, deaths and kill      *)
(* attributions of a step all follow from the neighbour counts of the grid *)
(* before the step, so a cell born or dead in the step has no effect on    *)
(* any other cell in the same step                                         *)
C34_SynchronousStep ==
    Stepped =>
        /\ \A cell \in Cells :
              IF pre_grid[cell] \in lifeform_ids(lifeforms)
              THEN grid[cell] =
                      (IF PreCount(pre_grid[cell], cell)
                             \in LifeformOf(pre_grid[cell]).survival_rules
                       THEN pre_grid[cell] ELSE 0)
              ELSE IF pre_grid[cell] > 0 THEN grid[cell] = pre_grid[cell]
              ELSE IF BirthCandidates(pre_grid, cell) = {} THEN grid[cell] = 0
              ELSE grid[cell] \in BirthCandidates(pre_grid, cell)
        /\ result[1] = Cardinality({cell \in Cells :
                          pre_grid[cell] = 0 /\ BirthCandidates(pre_grid, cell) /= {}})
        /\ result[2] = Cardinality({cell \in Cells :
                          /\ pre_grid[cell] \in lifeform_ids(lifeforms)
                          /\ PreCount(pre_grid[cell], cell)
                                \notin LifeformOf(pre_grid[cell]).survival_rules})
        /\ topo.shape /= "square" =>
              \A id \in lifeform_ids(lifeforms) : result[7][id] = Cardinality(KilledBy(id))

(* in one step a cell was born next to a cell that stayed alive although   *)
(* with the newborn as a neighbour its count would have been outside its   *)
(* survival rules                                                          *)
C34_Witness ==
    /\ Stepped
    /\ \E born \in Cells, kept \in Cells :
          /\ pre_grid[born] = 0
          /\ grid[born] /= 0
          /\ pre_grid[kept] /= 0
          /\ grid[kept] = pre_grid[kept]
          /\ grid[born] = grid[kept]
          /\ neighbor_counts(topo, pre_grid, grid[kept], kept)
                /= neighbor_counts(topo, grid, grid[kept], kept)
          /\ neighbor_counts(topo, [pre_grid EXCEPT ![born] = grid[born]], grid[kept], kept)
                \notin LifeformOf(grid[kept]).survival_rules

Mapped == call.op = "_create_neighbor_map"

(* C38: the neighbour relation of the hexagon and triangle grids is        *)
(* symmetric for every width and height, wrapped or not, and no cell is    *)
(* its own neighbour                                                       *)
C38_SymmetricNoSelf ==
    Mapped =>
        \A a \in DOMAIN call.neighbor_map :
            /\ a \notin call.neighbor_map[a]
            /\ \A b \in call.neighbor_map[a] : a \in call.neighbor_map[b]

(* a wrapped hexagon grid of 5 by 5 cells in which cell (0, 4) counts cell *)
(* (4, 0) as a neighbour but not the other way round                       *)
C38_Witness ==
    /\ Mapped
    /\ call.topo = [shape |-> "hexagon", mode |-> "none", wrap |-> TRUE]
    /\ call.grid_width = 5
    /\ call.grid_height = 5
    /\ 20 \in call.neighbor_map[4]
    /\ 4 \notin call.neighbor_map[20]

Formatted == call.op = "format_rule_string"

(* C39: for every supported lattice (N = 8, 6, 3, 12) two distinct genomes *)
(* of length 2(N+1) have distinct canonical B/S strings, so the test       *)
(* "rule_str not in rules" never drops a rule that differs from the saved  *)
(* ones                                                                    *)
C39_DistinctGenomesDistinctStrings ==
    Formatted =>
        \A other \in SparseGenes(2 * (call.NEIGHBOR_COUNT + 1)) :
            other /= call.gene =>
                format_rule_string(other, call.NEIGHBOR_COUNT) /= call.rule_str

(* on the triangle lattice with vertex neighbours (N = 12) the genome of   *)
(* birth {1, 2} is formatted to the string of the genome of birth {12}     *)
C39_Witness ==
    /\ Formatted
    /\ call.NEIGHBOR_COUNT = 12
    /\ call.gene = rule_to_gene(Rule({1, 2}, {}), 12)
    /\ call.rule_str = format_rule_string(rule_to_gene(Rule({12}, {}), 12), 12)
    /\ call.rule_str = << "B", "1", "2", "/", "S" >>

(* C33: the discovery loop has no terminal state: every evaluation        *)
(* completes, selection and refill end with a full population, and the     *)
(* next generation starts, so no generation is the last one (stated for    *)
(* the generations below the bound MaxGenerations)                         *)
C33_NextGenerationStarts ==
    \A g \in 1 .. MaxGenerations - 1 :
        (discovery.generation_count = g) ~> (discovery.generation_count = g + 1)

(* discover_rules has ended in its first generation on a TypeError of      *)
(* save_rule, before the last genome of the generation was evaluated       *)
C33_Witness ==
    /\ discovery.status = "TypeError"
    /\ discovery.generation_count = 1
    /\ discovery.i <= Len(discovery.population)
    /\ ~ ENABLED NextDiscovery

(* C32: seeding one evaluation leaves the random stream of the discovery  *)
(* loop's own draws and of every other consumer unchanged: after an        *)
(* evaluation the generator they draw from is where the draw of the seed   *)
(* left it, whatever the seed was                                          *)
C32_SeedingLeavesStream ==
    run.last.op = "evaluate" =>
        \E seeded \in 0 .. MaxEvalDraws :
            run.state = advance(random_next(run.last.drawn_at), seeded)

(* two evaluations in a row: the generator after the second is given by    *)
(* the second seed alone, and the second seed is the value the generator   *)
(* seeded with the first seed yields after the draws of the simulations    *)
C32_Witness ==
    /\ run.last.op = "evaluate"
    /\ run.last.previous.op = "evaluate"
    /\ run.state = advance(run.last.seed % RandomStates, run.last.seeded_draws)
    /\ \A seeded \in 0 .. MaxEvalDraws :
          run.state /= advance(random_next(run.last.drawn_at), seeded)
    /\ \E draws \in 0 .. 2 * MaxEvalDraws :
          run.last.seed =
              randint(0, MaxSeedDrawn,
                      advance(run.last.previous.seed % RandomStates, draws))

(* C35: the lifespan of a live cell is the number of consecutive          *)
(* generations it has been alive: 1 when born, one more after each step it *)
(* survives, for any number of steps and without wrapping around; so a     *)
(* cell counted as static (lifespan above StaticThreshold) stays counted   *)
(* for as long as it stays alive (stated for the cells of the species the  *)
(* grid steps)                                                             *)
C35_LifespanCountsGenerations ==
    [][Stepping => \A cell \in Cells :
          grid'[cell] \in lifeform_ids(lifeforms) =>
             /\ grid_lifespans'[cell] =
                   (IF grid[cell] /= 0 THEN grid_lifespans[cell] + 1 ELSE 1)
             /\ grid_lifespans[cell] > StaticThreshold =>
                   grid_lifespans'[cell] > StaticThreshold]_gridVars

(* after 127 steps a cell that has been alive since the seeding, with      *)
(* lifespan 127 before the step, is alive with lifespan -128 and no longer *)
(* above the static threshold                                              *)
C35_Witness ==
    /\ Stepped
    /\ generation = 2 ^ (LifespanBits - 1) - 1
    /\ \E cell \in Cells :
          /\ grid[cell] /= 0
          /\ pre_grid[cell] = grid[cell]
          /\ pre_lifespans[cell] = 2 ^ (LifespanBits - 1) - 1
          /\ grid_lifespans[cell] = - (2 ^ (LifespanBits - 1))
          /\ grid_lifespans[cell] <= StaticThreshold

=============================================================================
